---- MODULE Spec2Model ----
(***************************************************************************)
(* A model of the Mutable SDK's session/game-state synchronizer            *)
(* (GameStateModule, src/modules/game-state.ts) and of its analytics      *)
(* event queue (AnalyticsModule, src/unnamed/part_008).                   *)
(*                                                                         *)
(* JavaScript runs the SDK on one event loop: a handler runs without       *)
(* interruption up to its next `await`.  Every action below is one such    *)
(* run: the start of a public method up to its first await, the            *)
(* continuation of a suspended method after the awaited promise settles,   *)
(* or a push-channel message handler.  Suspended methods are the records   *)
(* of `pending`.                                                           *)
(*                                                                         *)
(* An optional value (`x?: T`) is a sequence of length at most one:        *)
(* None for undefined, Some(v) for a value.                                *)
(***************************************************************************)
EXTENDS Naturals, Sequences, FiniteSets, Bags, TLC

\* ------------------------------------------------------------- bounds
\* Calls of the synchronizer that may be suspended at the same time.
MaxPending == 2
\* Length of a Session's players list.
MaxPlayers == 2
\* Length of each callback list.
MaxCallbacks == 2
\* Handler runs that track analytics events in one behaviour.
MaxTrackRuns == 3
\* MutableSDK.initialize calls that may be suspended at the same time.
MaxInitializing == 2

\* ------------------------------------------------------------- values
None == << >>
Some(v) == << v >>
IsSome(o) == o /= << >>
Get(o) == o[1]

SessionIds == {"s1"}
PlayerIds == {"p1", "p2"}
LocalPlayer == "p1"
GameIds == {"g1"}
Callbacks == {"cb1"}

SessionStatus == {"waiting", "playing", "completed", "aborted"}
StateStatus == {"waiting", "playing", "paused", "completed"}
PlayerStatus == {"active", "inactive", "eliminated"}

\* AnalyticsModule.MAX_QUEUE_SIZE
MAX_QUEUE_SIZE == 100

\* ErrorCode
CONNECTION_ERROR == "connection_error"
INVALID_GAME_STATE == "invalid_game_state"
INVALID_CONFIGURATION == "invalid_configuration"

\* An error is the chain of its codes, outermost first: the code of the error,
\* then the chain of its `details` (the cause).
MutableSDKError(code, details) == << code >> \o details

\* What is not a MutableSDKError: response.error of a failure envelope, the error
\* ApiClient.post rejects with, the error WebSocketClient.connect rejects with.
ResponseError == << "response_error" >>
TransportError == << "transport_error" >>
SocketError == << "socket_error" >>

\* ------------------------------------------------------------- state
VARIABLES
    gameInfo,                \* GameStateModule.gameInfo?
    player,                  \* GameStateModule.player?
    currentSession,          \* GameStateModule.currentSession?
    currentState,            \* GameStateModule.currentState?
    stateUpdateCallbacks,    \* GameStateModule.stateUpdateCallbacks
    sessionUpdateCallbacks,  \* GameStateModule.sessionUpdateCallbacks
    wsState,                 \* the push channel: "closed", "connecting" or "open"
    wsSockets,               \* sockets of the push channel that connect or are open
    wsReconnect,             \* a reconnection of the push channel is scheduled
    pending,                 \* the suspended calls of the synchronizer
    last,                    \* what the last handler run did, as its caller sees it
    anGameInfo,              \* AnalyticsModule.gameInfo?
    eventQueue,              \* AnalyticsModule.eventQueue
    isProcessingQueue,       \* AnalyticsModule.isProcessingQueue
    flushInterval,           \* AnalyticsModule.flushInterval is set
    inflight,                \* the suspended flushEvents calls, each with its batch
    transmitted,             \* batches the backend accepted, in order
    tracked,                 \* number of events trackEvent has queued
    trackRuns,               \* number of handler runs that tracked events
    backendState,            \* session.state in the database of the test server
    posted,                  \* the updatePlayerState requests in flight, oldest first
    sdkInitialized,          \* MutableSDK.initialized
    sdkGameInfo,             \* MutableSDK.gameInfo?
    sdkPending,              \* the suspended MutableSDK.initialize calls
    sdkCompleted,            \* game infos of the initialize calls that resolved
    sdkLast,                 \* what the last run of MutableSDK.initialize did
    authPlayer,              \* AuthModule.player?
    authToken,               \* AuthModule.authToken?
    refreshToken,            \* AuthModule.refreshToken?
    refreshTokenTimeout,     \* the timer of AuthModule.refreshTokenTimeout is pending
    storedSession,           \* localStorage "mutable_session"
    authPending,             \* the suspended calls of the AuthModule
    authLast,                \* what the last run of an AuthModule method did
    loggedOut                \* a logout has completed and no authentication since

gsVars == << gameInfo, player, currentSession, currentState, stateUpdateCallbacks,
             sessionUpdateCallbacks, wsState, wsSockets, wsReconnect, pending, last >>
anVars == << anGameInfo, eventQueue, isProcessingQueue, flushInterval, inflight,
             transmitted, tracked, trackRuns >>
vars == << gameInfo, player, currentSession, currentState, stateUpdateCallbacks,
           sessionUpdateCallbacks, wsState, wsSockets, wsReconnect, pending, last,
           anGameInfo, eventQueue, isProcessingQueue, flushInterval, inflight,
           transmitted, tracked, trackRuns, backendState, posted,
           sdkInitialized, sdkGameInfo, sdkPending, sdkCompleted, sdkLast,
           authPlayer, authToken, refreshToken, refreshTokenTimeout, storedSession,
           authPending, authLast, loggedOut >>
authVars == << authPlayer, authToken, refreshToken, refreshTokenTimeout, storedSession,
              authPending, authLast, loggedOut >>
sdkVars == << sdkInitialized, sdkGameInfo, sdkPending, sdkCompleted, sdkLast >>

\* What a run of the synchronizer leaves alone; a continuation of a request
\* for the GameState leaves only anVars alone, the backend that answers it
\* being part of the step.
chVars == << wsSockets, wsReconnect >>
otherVars == << anVars, backendState, posted, sdkVars, authVars >>
restVars == << otherVars, chVars >>


\* ------------------------------------------------------------- data
\* GameSession.  players holds the identifiers of its PlayerInfo entries.
Session(sid, players, hostId, status) ==
    [sessionId |-> sid, players |-> players, hostId |-> hostId, status |-> status]

NoPlayerStates == << >>

\* GameState
GameState(sid, status, score, playerStates) ==
    [sessionId |-> sid, status |-> status, score |-> score, playerStates |-> playerStates]

\* {...a, ...b}: the fields of b over the fields of a.
Spread(a, b) ==
    [f \in (DOMAIN a) \cup (DOMAIN b) |-> IF f \in DOMAIN b THEN b[f] ELSE a[f]]

\* The sequences over S without the entries e has, in order (Array.filter).
RECURSIVE Filter(_, _)
Filter(seq, e) ==
    IF seq = << >> THEN << >>
    ELSE IF Head(seq) = e THEN Filter(Tail(seq), e)
    ELSE << Head(seq) >> \o Filter(Tail(seq), e)

InSeq(e, seq) == \E i \in 1..Len(seq) : seq[i] = e

\* ------------------------------------------------------ the backend
\* The envelope ApiClient.post resolves with, or `thrown` when it rejects.
Envelope(success, data, error) ==
    [thrown |-> FALSE, success |-> success, data |-> data, error |-> error]
Thrown == [thrown |-> TRUE, success |-> FALSE, data |-> None, error |-> TransportError]
FailureEnvelope == Envelope(FALSE, None, ResponseError)
NoDataEnvelope == Envelope(TRUE, None, << >>)

\* The responses to a request whose success carries one of `payloads`.
Responses(payloads) ==
    { Envelope(TRUE, Some(d), << >>) : d \in payloads }
        \cup { FailureEnvelope, NoDataEnvelope, Thrown }

\* POST /sessions/create answers with a session the caller hosts, alone.
CreatedSession(sid, playerId) == Session(sid, << playerId >>, playerId, "waiting")

\* POST /sessions/:id/join answers with the session, the caller added to it.
JoinedSession(sid, playerId) ==
    Session(sid, << "p2", playerId >>, "p2", "waiting")

\* The state snapshots the backend answers or pushes for session sid.
StateSnapshots(sid) ==
    { GameState(sid, "playing", 0, NoPlayerStates), GameState(sid, "completed", 1, NoPlayerStates) }

\* The session snapshots the backend pushes: the host is one of the players.
SessionSnapshots ==
    UNION { { Session(sid, << "p1" >>, "p1", "playing"),
              Session(sid, << "p2", "p1" >>, "p2", "completed") } : sid \in SessionIds }

\* --------------------------------------------------- handler effects
\* The push channel is attached.
wsOpen == wsState = "open"

\* wsClient.connect(): a closed channel starts to connect; a call made while
\* it connects waits for that attempt.
connect == IF wsState = "closed" THEN "connecting" ELSE wsState

\* wsClient.disconnect(): closes the channel and gives up a connection attempt.
disconnect == "closed"

\* The call of wsClient.connect(): only a closed channel opens a socket; a
\* scheduled reconnection stays scheduled.
Connect ==
    /\ wsState' = connect
    /\ wsSockets' = IF wsState = "closed" THEN wsSockets + 1 ELSE wsSockets
    /\ UNCHANGED wsReconnect

\* The call of wsClient.disconnect(): the close is intentional, the sockets
\* are closed and a scheduled reconnection is cancelled.
Disconnect ==
    /\ wsState' = disconnect
    /\ wsSockets' = 0
    /\ wsReconnect' = FALSE

\* connectToSession on a client of its own: every call opens a socket.
connectToSessionOnNewClient ==
    /\ wsState' = IF wsState = "open" THEN "open" ELSE "connecting"
    /\ wsSockets' = wsSockets + 1
    /\ UNCHANGED wsReconnect

\* connectToSession up to `await this.wsClient.connect()`.
connectToSession == Connect

\* A suspended call: the method, the await it is suspended at ("api": the
\* request; "ws": wsClient.connect), and the sessionId it holds in a local.
Call(op, stage, sid) == [op |-> op, stage |-> stage, sid |-> sid]

\* A backend request: the resource, the session in its path, and what of its
\* body the model keeps (the stateUpdate of an update, the winnerIds of an end).
Req(path, sid) == [path |-> path, sid |-> sid, body |-> None]
ReqWith(path, sid, body) == [path |-> path, sid |-> sid, body |-> body]
Msg(event, sid, payload) == [event |-> event, sid |-> sid, payload |-> payload]

\* What one handler run did: outcome is "pending" (suspended at an await),
\* "resolved", "rejected" (with `error`) or "none" (not a method call);
\* requests are the backend requests issued, sent the push messages sent,
\* notified the callbacks invoked, in order.  A run that continues a
\* suspended call has that call in `resumed` and, after a request, what
\* ApiClient.post settled with in `response`; a push handler has the payload
\* of its message in `received`.  `effects` is the order of the sends,
\* requests and notifications of the run, and of its calls of
\* wsClient.connect and disconnect: every method sends before it requests
\* (updateGameState) or notifies (createSession, joinSession).
Effects(requests, sent, notified) ==
    [i \in 1..Len(sent) |-> "send"] \o [i \in 1..Len(requests) |-> "request"]
        \o [i \in 1..Len(notified) |-> "notify"]

Did(op, outcome, error, value, requests, sent, notified) ==
    [op |-> op, outcome |-> outcome, error |-> error, value |-> value,
     requests |-> requests, sent |-> sent, notified |-> notified,
     effects |-> Effects(requests, sent, notified),
     resumed |-> None, response |-> None, received |-> None, args |-> << >>]

\* The run also called `method` of wsClient ("connect" or "disconnect").
Calling(method, did) == [did EXCEPT !.effects = Append(@, method)]

\* The run is a call with the arguments `args`.
Called(args, did) == [did EXCEPT !.args = args]

After(c, response, did) == [did EXCEPT !.resumed = Some(c), !.response = response]

Resolved(op, value, sent, notified) == Did(op, "resolved", << >>, value, << >>, sent, notified)
Rejected(op, error) == Did(op, "rejected", error, None, << >>, << >>, << >>)
Suspended(op, requests, sent) == Did(op, "pending", << >>, None, requests, sent, << >>)

CanSuspend == BagCardinality(pending) < MaxPending
Suspend(c) == pending' = pending (+) SetToBag({c})
Resume(c) == pending' = pending (-) SetToBag({c})
Awaiting(op, stage) == { c \in BagToSet(pending) : c.op = op /\ c.stage = stage }


\* ------------------------------------------------ the synchronizer
gsRest == << stateUpdateCallbacks, sessionUpdateCallbacks >>

\* The error validateInitialization throws, << >> when it returns.
validateInitialization ==
    IF ~IsSome(gameInfo) THEN MutableSDKError(INVALID_CONFIGURATION, << >>)
    ELSE IF ~IsSome(player) THEN MutableSDKError(INVALID_CONFIGURATION, << >>)
    ELSE << >>

\* The callbacks that throw when they are invoked.
ThrowingCallbacks == {"cbThrows"}

\* The entries of `callbacks` up to the first that throws.
UntilThrow(callbacks) ==
    LET throws == { i \in 1..Len(callbacks) : callbacks[i] \in ThrowingCallbacks }
    IN  IF throws = {} THEN callbacks
        ELSE SubSeq(callbacks, 1, CHOOSE i \in throws : \A j \in throws : i <= j)

\* notifyStateUpdateCallbacks without the try/catch around each callback.
notifyStateUpdateCallbacksUnguarded(state) ==
    IF ~IsSome(state) THEN << >>
    ELSE [i \in 1..Len(UntilThrow(stateUpdateCallbacks)) |-> << "state", stateUpdateCallbacks[i] >>]

\* The callbacks notifyStateUpdateCallbacks invokes when the state is `state`:
\* what a callback throws is caught and logged, and the loop goes on.
notifyStateUpdateCallbacks(state) ==
    IF ~IsSome(state) THEN << >>
    ELSE [i \in 1..Len(stateUpdateCallbacks) |-> << "state", stateUpdateCallbacks[i] >>]

\* The callbacks notifySessionUpdateCallbacks invokes when the session is `session`.
notifySessionUpdateCallbacks(session) ==
    IF ~IsSome(session) THEN << >>
    ELSE [i \in 1..Len(sessionUpdateCallbacks) |-> << "session", sessionUpdateCallbacks[i] >>]

\* The `!response.success || !response.data` test of the request methods.
IsLogicalFailure(response) == ~response.success \/ ~IsSome(response.data)

\* The error a request method rejects with for a response that is thrown or
\* fails the test: the catch block wraps whatever the try block threw.
RequestError(response) ==
    IF response.thrown THEN MutableSDKError(INVALID_GAME_STATE, response.error)
    ELSE MutableSDKError(INVALID_GAME_STATE,
                         MutableSDKError(INVALID_GAME_STATE, response.error))

initialize(g) ==
    /\ ~IsSome(gameInfo)
    /\ gameInfo' = Some(g)
    /\ last' = Resolved("initialize", None, << >>, << >>)
    /\ UNCHANGED << player, currentSession, currentState, wsState, pending, gsRest, restVars >>

setPlayer(p) ==
    /\ ~IsSome(player)
    /\ player' = Some(p)
    /\ last' = Did("setPlayer", "none", << >>, None, << >>, << >>, << >>)
    /\ UNCHANGED << gameInfo, currentSession, currentState, wsState, pending, gsRest, restVars >>

\* createSession up to its request.
createSession ==
    /\ IF validateInitialization /= << >>
       THEN /\ last' = Rejected("createSession",
                           MutableSDKError(INVALID_GAME_STATE, validateInitialization))
            /\ UNCHANGED pending
       ELSE /\ CanSuspend
            /\ Suspend(Call("createSession", "api", None))
            /\ last' = Suspended("createSession", << Req("create", None) >>, << >>)
    /\ UNCHANGED << gameInfo, player, currentSession, currentState, wsState, gsRest, restVars >>

\* createSession from the response to the call of wsClient.connect.
createSessionResponse(c, response) ==
    /\ c \in Awaiting("createSession", "api")
    /\ IF response.thrown \/ IsLogicalFailure(response)
       THEN /\ Resume(c)
            /\ last' = After(c, Some(response), Rejected("createSession", RequestError(response)))
            /\ UNCHANGED << currentSession, wsState, chVars >>
       ELSE /\ currentSession' = response.data
            /\ connectToSession
            /\ pending' = (pending (-) SetToBag({c}))
                            (+) SetToBag({Call("createSession", "ws", Some(Get(response.data).sessionId))})
            /\ last' = After(c, Some(response),
                          Calling("connect", Suspended("createSession", << >>, << >>)))
    /\ UNCHANGED << gameInfo, player, currentState, gsRest, otherVars >>

\* The rest of a create or join once wsClient.connect has settled:
\* connectToSession's send, the notification and the return.
Connected(op, c, ok) ==
    /\ c \in Awaiting(op, "ws")
    /\ Resume(c)
    /\ IF ok
       THEN /\ wsState /= "closed"
            /\ wsState' = "open"
            /\ UNCHANGED chVars
            /\ last' = After(c, None, Resolved(op, currentSession,
                                << Msg("join_session", c.sid, player) >>,
                                notifySessionUpdateCallbacks(currentSession)))
       ELSE /\ wsState /= "open"
            /\ wsState' = "closed"
            /\ wsSockets' = 0
            /\ UNCHANGED wsReconnect
            /\ last' = After(c, None, Rejected(op,
                          MutableSDKError(INVALID_GAME_STATE,
                              MutableSDKError(CONNECTION_ERROR, SocketError))))
    /\ UNCHANGED << gameInfo, player, currentSession, currentState, gsRest, otherVars >>

createSessionConnected(c, ok) == Connected("createSession", c, ok)

\* joinSession up to its request.
joinSession(sessionId) ==
    /\ IF validateInitialization /= << >>
       THEN /\ last' = Rejected("joinSession",
                           MutableSDKError(INVALID_GAME_STATE, validateInitialization))
            /\ UNCHANGED pending
       ELSE /\ CanSuspend
            /\ Suspend(Call("joinSession", "api", Some(sessionId)))
            /\ last' = Suspended("joinSession", << Req("join", Some(sessionId)) >>, << >>)
    /\ UNCHANGED << gameInfo, player, currentSession, currentState, wsState, gsRest, restVars >>

joinSessionResponse(c, response) ==
    /\ c \in Awaiting("joinSession", "api")
    /\ IF response.thrown \/ IsLogicalFailure(response)
       THEN /\ Resume(c)
            /\ last' = After(c, Some(response), Rejected("joinSession", RequestError(response)))
            /\ UNCHANGED << currentSession, wsState, chVars >>
       ELSE /\ currentSession' = response.data
            /\ connectToSession
            /\ pending' = (pending (-) SetToBag({c}))
                            (+) SetToBag({Call("joinSession", "ws", c.sid)})
            /\ last' = After(c, Some(response),
                          Calling("connect", Suspended("joinSession", << >>, << >>)))
    /\ UNCHANGED << gameInfo, player, currentState, gsRest, otherVars >>

joinSessionConnected(c, ok) == Connected("joinSession", c, ok)


\* leaveSession that detaches the push channel also when there is no session.
leaveSessionDetachesWithoutSession ==
    /\ IF ~IsSome(currentSession)
       THEN /\ Disconnect
            /\ last' = Calling("disconnect", Resolved("leaveSession", None, << >>, << >>))
            /\ UNCHANGED pending
       ELSE /\ CanSuspend
            /\ Suspend(Call("leaveSession", "api", Some(Get(currentSession).sessionId)))
            /\ last' = Suspended("leaveSession",
                                 << Req("leave", Some(Get(currentSession).sessionId)) >>, << >>)
            /\ UNCHANGED << wsState, chVars >>
    /\ UNCHANGED << gameInfo, player, currentSession, currentState, gsRest, otherVars >>

\* leaveSession up to its request; a no-op without a session.
leaveSession ==
    /\ IF ~IsSome(currentSession)
       THEN /\ last' = Resolved("leaveSession", None, << >>, << >>)
            /\ UNCHANGED pending
       ELSE /\ CanSuspend
            /\ Suspend(Call("leaveSession", "api", Some(Get(currentSession).sessionId)))
            /\ last' = Suspended("leaveSession",
                                 << Req("leave", Some(Get(currentSession).sessionId)) >>, << >>)
    /\ UNCHANGED << gameInfo, player, currentSession, currentState, wsState, gsRest, restVars >>

\* leaveSession that leaves the push channel as it is.
leaveSessionResponseKeepsChannel(c, response) ==
    /\ c \in Awaiting("leaveSession", "api")
    /\ Resume(c)
    /\ IF response.thrown
       THEN /\ last' = After(c, Some(response), Rejected("leaveSession", RequestError(response)))
            /\ UNCHANGED << currentSession, currentState >>
       ELSE /\ currentSession' = None
            /\ currentState' = None
            /\ last' = After(c, Some(response), Resolved("leaveSession", None, << >>, << >>))
    /\ UNCHANGED << gameInfo, player, wsState, chVars, gsRest, otherVars >>

\* leaveSession from the response on: the envelope is not looked at.
leaveSessionResponse(c, response) ==
    /\ c \in Awaiting("leaveSession", "api")
    /\ Resume(c)
    /\ IF response.thrown
       THEN /\ last' = After(c, Some(response), Rejected("leaveSession", RequestError(response)))
            /\ UNCHANGED << wsState, chVars, currentSession, currentState >>
       ELSE /\ Disconnect
            /\ currentSession' = None
            /\ currentState' = None
            /\ last' = After(c, Some(response),
                          Calling("disconnect", Resolved("leaveSession", None, << >>, << >>)))
    /\ UNCHANGED << gameInfo, player, gsRest, otherVars >>

\* The error startSession, endSession, updateGameState and updatePlayerState
\* reject with when there is no session: the throw, wrapped by the catch block.
NoSessionError ==
    MutableSDKError(INVALID_GAME_STATE, MutableSDKError(INVALID_GAME_STATE, << >>))

\* startSession up to its request.
startSession ==
    /\ IF ~IsSome(currentSession)
       THEN /\ last' = Rejected("startSession", NoSessionError)
            /\ UNCHANGED pending
       ELSE /\ CanSuspend
            /\ Suspend(Call("startSession", "api", Some(Get(currentSession).sessionId)))
            /\ last' = Suspended("startSession",
                                 << Req("start", Some(Get(currentSession).sessionId)) >>, << >>)
    /\ UNCHANGED << gameInfo, player, currentSession, currentState, wsState, gsRest, restVars >>

\* A request method that answers with a state, from the response on.
StateResponse(op, c, response) ==
    /\ c \in Awaiting(op, "api")
    /\ Resume(c)
    /\ IF response.thrown \/ IsLogicalFailure(response)
       THEN /\ last' = After(c, Some(response), Rejected(op, RequestError(response)))
            /\ UNCHANGED currentState
       ELSE /\ currentState' = response.data
            /\ last' = After(c, Some(response), Resolved(op, response.data, << >>,
                                notifyStateUpdateCallbacks(response.data)))
    /\ UNCHANGED << gameInfo, player, currentSession, wsState, gsRest, anVars, sdkVars, chVars, authVars >>

startSessionResponse(c, response) == StateResponse("startSession", c, response)

\* endSession that returns without a session, as leaveSession does.
endSessionQuietWithoutSession(winnerIds) ==
    /\ IF ~IsSome(currentSession)
       THEN /\ last' = Resolved("endSession", None, << >>, << >>)
            /\ UNCHANGED pending
       ELSE /\ CanSuspend
            /\ Suspend(Call("endSession", "api", Some(Get(currentSession).sessionId)))
            /\ last' = Suspended("endSession",
                    << ReqWith("end", Some(Get(currentSession).sessionId), winnerIds) >>, << >>)
    /\ UNCHANGED << gameInfo, player, currentSession, currentState, wsState, gsRest, restVars >>

\* endSession up to its request.
endSession(winnerIds) ==
    /\ IF ~IsSome(currentSession)
       THEN /\ last' = Rejected("endSession", NoSessionError)
            /\ UNCHANGED pending
       ELSE /\ CanSuspend
            /\ Suspend(Call("endSession", "api", Some(Get(currentSession).sessionId)))
            /\ last' = Suspended("endSession",
                    << ReqWith("end", Some(Get(currentSession).sessionId), winnerIds) >>, << >>)
    /\ UNCHANGED << gameInfo, player, currentSession, currentState, wsState, gsRest, restVars >>

\* endSession that marks the local Session completed once the request is answered.
endSessionResponseCompletesLocally(c, response) ==
    /\ c \in Awaiting("endSession", "api")
    /\ Resume(c)
    /\ IF response.thrown
       THEN /\ last' = After(c, Some(response), Rejected("endSession", RequestError(response)))
            /\ UNCHANGED currentSession
       ELSE /\ currentSession' = IF IsSome(currentSession)
                                 THEN Some([Get(currentSession) EXCEPT !.status = "completed"])
                                 ELSE currentSession
            /\ last' = After(c, Some(response), Resolved("endSession", None, << >>,
                                notifySessionUpdateCallbacks(currentSession')))
    /\ UNCHANGED << gameInfo, player, currentState, wsState, gsRest, restVars >>

\* endSession from the response on: the envelope is not looked at.
endSessionResponse(c, response) ==
    /\ c \in Awaiting("endSession", "api")
    /\ Resume(c)
    /\ IF response.thrown
       THEN last' = After(c, Some(response), Rejected("endSession", RequestError(response)))
       ELSE last' = After(c, Some(response), Resolved("endSession", None, << >>, << >>))
    /\ UNCHANGED << gameInfo, player, currentSession, currentState, wsState, gsRest, restVars >>

\* updateGameState that posts before it sends on the push channel.
UpdateRequestPostsFirst(op, args, stateUpdate) ==
    /\ CanSuspend
    /\ Suspend(Call("updateGameState", "api", Some(Get(currentSession).sessionId)))
    /\ last' = [Called(args, Suspended(op,
                   << ReqWith("state", Some(Get(currentSession).sessionId), Some(stateUpdate)) >>,
                   << Msg("game_state_update", Some(Get(currentSession).sessionId), stateUpdate) >>))
                 EXCEPT !.effects = << "request", "send" >>]

\* updateGameState up to its request, called as `op` (updatePlayerState
\* returns the promise of its call of updateGameState).
UpdateRequest(op, args, stateUpdate) ==
    /\ CanSuspend
    /\ Suspend(Call("updateGameState", "api", Some(Get(currentSession).sessionId)))
    /\ last' = Called(args, Suspended(op,
                 << ReqWith("state", Some(Get(currentSession).sessionId), Some(stateUpdate)) >>,
                 << Msg("game_state_update", Some(Get(currentSession).sessionId), stateUpdate) >>))

updateGameState(stateUpdate) ==
    /\ IF ~IsSome(currentSession)
       THEN /\ last' = Rejected("updateGameState", NoSessionError)
            /\ UNCHANGED pending
       ELSE UpdateRequest("updateGameState", << stateUpdate >>, stateUpdate)
    /\ UNCHANGED << gameInfo, player, currentSession, currentState, wsState, gsRest, restVars >>

\* updateGameState that stores response.data before it tests the response.
updateGameStateResponseStoresFirst(c, response) ==
    /\ c \in Awaiting("updateGameState", "api")
    /\ Resume(c)
    /\ IF response.thrown
       THEN /\ last' = After(c, Some(response), Rejected("updateGameState", RequestError(response)))
            /\ UNCHANGED currentState
       ELSE /\ currentState' = response.data
            /\ last' = After(c, Some(response),
                          IF IsLogicalFailure(response)
                          THEN Rejected("updateGameState", RequestError(response))
                          ELSE Resolved("updateGameState", response.data, << >>,
                                        notifyStateUpdateCallbacks(response.data)))
    /\ UNCHANGED << gameInfo, player, currentSession, wsState, gsRest, anVars, sdkVars, chVars, authVars >>

\* updateGameState that keeps the stored state when a later call is in flight.
updateGameStateResponseYieldsToLaterCall(c, response) ==
    /\ c \in Awaiting("updateGameState", "api")
    /\ Resume(c)
    /\ IF response.thrown \/ IsLogicalFailure(response)
       THEN /\ last' = After(c, Some(response), Rejected("updateGameState", RequestError(response)))
            /\ UNCHANGED currentState
       ELSE /\ currentState' = IF CopiesIn(c, pending) > 1 THEN currentState ELSE response.data
            /\ last' = After(c, Some(response), Resolved("updateGameState", response.data, << >>,
                                notifyStateUpdateCallbacks(currentState')))
    /\ UNCHANGED << gameInfo, player, currentSession, wsState, gsRest, anVars, sdkVars, chVars, authVars >>

updateGameStateResponse(c, response) == StateResponse("updateGameState", c, response)

\* The PlayerState a first partial update of playerId is merged over.
DefaultPlayerState(playerId) == [playerId |-> playerId, status |-> "active", score |-> 0]

\* updatePlayerState that merges every partial over the default PlayerState.
PlayerStateUpdateOverDefault(playerId, playerState) ==
    LET states == IF IsSome(currentState) /\ "playerStates" \in DOMAIN Get(currentState)
                  THEN Get(currentState).playerStates
                  ELSE NoPlayerStates
    IN  [playerStates |->
            Spread(states, (playerId :> Spread(DefaultPlayerState(playerId), playerState)))]

\* The stateUpdate updatePlayerState builds.
PlayerStateUpdate(playerId, playerState) ==
    LET states == IF IsSome(currentState) /\ "playerStates" \in DOMAIN Get(currentState)
                  THEN Get(currentState).playerStates
                  ELSE NoPlayerStates
        old == IF playerId \in DOMAIN states THEN states[playerId]
               ELSE DefaultPlayerState(playerId)
    IN  [playerStates |-> Spread(states, (playerId :> Spread(old, playerState)))]

updatePlayerState(playerId, playerState) ==
    /\ IF ~IsSome(currentSession)
       THEN /\ last' = Rejected("updatePlayerState", NoSessionError)
            /\ UNCHANGED pending
       ELSE UpdateRequest("updatePlayerState", << playerId, playerState >>,
                          PlayerStateUpdate(playerId, playerState))
    /\ UNCHANGED << gameInfo, player, currentSession, currentState, wsState, gsRest,
                    anVars, backendState, sdkVars, chVars, authVars >>

\* ------------------------------------------------- subscriptions
onStateUpdate(callback) ==
    /\ stateUpdateCallbacks' = Append(stateUpdateCallbacks, callback)
    /\ last' = Did("onStateUpdate", "none", << >>, None, << >>, << >>, << >>)
    /\ UNCHANGED << gameInfo, player, currentSession, currentState, wsState, pending,
                    sessionUpdateCallbacks, restVars >>

\* The run of a function onStateUpdate or onSessionUpdate returned for
\* `callback`: one "remove" for each registration the filter drops.
Unregistered(op, callback, callbacks) ==
    [Called(<< callback >>, Did(op, "none", << >>, None, << >>, << >>, << >>))
       EXCEPT !.effects = [i \in 1..(Len(callbacks) - Len(Filter(callbacks, callback)))
                             |-> "remove"]]

\* The sequence without its first entry e (indexOf and splice).
RECURSIVE RemoveFirst(_, _)
RemoveFirst(seq, e) ==
    IF seq = << >> THEN << >>
    ELSE IF Head(seq) = e THEN Tail(seq)
    ELSE << Head(seq) >> \o RemoveFirst(Tail(seq), e)

\* An unregister function that removes one registration of the callback.
unregisterStateUpdateRemovesFirst(callback) ==
    /\ stateUpdateCallbacks' = RemoveFirst(stateUpdateCallbacks, callback)
    /\ last' = Unregistered("unregisterStateUpdate", callback, stateUpdateCallbacks)
    /\ UNCHANGED << gameInfo, player, currentSession, currentState, wsState, pending,
                    sessionUpdateCallbacks, restVars >>

\* The function onStateUpdate(callback) returned.
unregisterStateUpdate(callback) ==
    /\ stateUpdateCallbacks' = Filter(stateUpdateCallbacks, callback)
    /\ last' = Unregistered("unregisterStateUpdate", callback, stateUpdateCallbacks)
    /\ UNCHANGED << gameInfo, player, currentSession, currentState, wsState, pending,
                    sessionUpdateCallbacks, restVars >>

onSessionUpdate(callback) ==
    /\ sessionUpdateCallbacks' = Append(sessionUpdateCallbacks, callback)
    /\ last' = Did("onSessionUpdate", "none", << >>, None, << >>, << >>, << >>)
    /\ UNCHANGED << gameInfo, player, currentSession, currentState, wsState, pending,
                    stateUpdateCallbacks, restVars >>

\* The function onSessionUpdate(callback) returned.
unregisterSessionUpdate(callback) ==
    /\ sessionUpdateCallbacks' = Filter(sessionUpdateCallbacks, callback)
    /\ last' = Unregistered("unregisterSessionUpdate", callback, sessionUpdateCallbacks)
    /\ UNCHANGED << gameInfo, player, currentSession, currentState, wsState, pending,
                    stateUpdateCallbacks, restVars >>

\* ------------------------------------------------- push handlers
\* The handlers setupWebSocketHandlers installs, one run for one message the
\* push channel delivers.
Push(event, payload, notified) ==
    [Did(event, "none", << >>, None, << >>, << >>, notified) EXCEPT !.received = Some(payload)]

WithPlayers(session, players) == [session EXCEPT !.players = players]

\* A session_update handler that keeps the players of the Session it has.
onSessionUpdateMessageKeepsPlayers(session) ==
    /\ IsSome(gameInfo)
    /\ currentSession' = Some(IF IsSome(currentSession)
                               THEN WithPlayers(session, Get(currentSession).players)
                               ELSE session)
    /\ last' = Push("session_update", session, notifySessionUpdateCallbacks(Some(session)))
    /\ UNCHANGED << gameInfo, player, currentState, wsState, pending, gsRest, restVars >>

onSessionUpdateMessage(session) ==
    /\ IsSome(gameInfo)
    /\ currentSession' = Some(session)
    /\ last' = Push("session_update", session, notifySessionUpdateCallbacks(Some(session)))
    /\ UNCHANGED << gameInfo, player, currentState, wsState, pending, gsRest, restVars >>

onGameStateUpdateMessage(state) ==
    /\ IsSome(gameInfo)
    /\ currentState' = Some(state)
    /\ last' = Push("game_state_update", state, notifyStateUpdateCallbacks(Some(state)))
    /\ UNCHANGED << gameInfo, player, currentSession, wsState, pending, gsRest, restVars >>

\* playerId is in the players list of the local Session.
IsMember(playerId) ==
    IsSome(currentSession) /\ InSeq(playerId, Get(currentSession).players)

onPlayerJoinMessage(playerId) ==
    /\ IsSome(gameInfo)
    /\ IF IsSome(currentSession)
       THEN /\ currentSession' = Some(WithPlayers(Get(currentSession),
                                    Append(Get(currentSession).players, playerId)))
            /\ last' = Push("player_join", playerId, notifySessionUpdateCallbacks(currentSession'))
       ELSE /\ last' = Push("player_join", playerId, << >>)
            /\ UNCHANGED currentSession
    /\ UNCHANGED << gameInfo, player, currentState, wsState, pending, gsRest, restVars >>

\* A player_leave handler that removes one entry of the player.
onPlayerLeaveMessageRemovesFirst(playerId) ==
    /\ IsSome(gameInfo)
    /\ IF IsSome(currentSession)
       THEN /\ currentSession' = Some(WithPlayers(Get(currentSession),
                                    RemoveFirst(Get(currentSession).players, playerId)))
            /\ last' = Push("player_leave", playerId, notifySessionUpdateCallbacks(currentSession'))
       ELSE /\ last' = Push("player_leave", playerId, << >>)
            /\ UNCHANGED currentSession
    /\ UNCHANGED << gameInfo, player, currentState, wsState, pending, gsRest, restVars >>

onPlayerLeaveMessage(playerId) ==
    /\ IsSome(gameInfo)
    /\ IF IsSome(currentSession)
       THEN /\ currentSession' = Some(WithPlayers(Get(currentSession),
                                    Filter(Get(currentSession).players, playerId)))
            /\ last' = Push("player_leave", playerId, notifySessionUpdateCallbacks(currentSession'))
       ELSE /\ last' = Push("player_leave", playerId, << >>)
            /\ UNCHANGED currentSession
    /\ UNCHANGED << gameInfo, player, currentState, wsState, pending, gsRest, restVars >>

\* ------------------------------------------------- specification
\* The inputs of the calls.
StateUpdates == { [score |-> 1], [status |-> "completed"] }
PlayerStateUpdates == { [score |-> 1] }
WinnerIds == { None, Some(<< LocalPlayer >>) }

InitSynchronizer ==
    /\ gameInfo = None
    /\ player = None
    /\ currentSession = None
    /\ currentState = None
    /\ stateUpdateCallbacks = << >>
    /\ sessionUpdateCallbacks = << >>
    /\ wsState = "closed"
    /\ wsSockets = 0
    /\ wsReconnect = FALSE
    /\ pending = EmptyBag
    /\ last = Did("new", "none", << >>, None, << >>, << >>, << >>)

InitBackend == backendState = None /\ posted = << >>

InitAnalytics ==
    /\ anGameInfo = None
    /\ eventQueue = << >>
    /\ isProcessingQueue = FALSE
    /\ flushInterval = FALSE
    /\ inflight = EmptyBag
    /\ transmitted = << >>
    /\ tracked = 0
    /\ trackRuns = 0

\* A new MutableSDK: initialized is false, gameInfo undefined, no call made.
NoSdkRun == [op |-> "none", args |-> None, outcome |-> "none", error |-> << >>,
             modules |-> << >>]

InitSDK ==
    /\ sdkInitialized = FALSE
    /\ sdkGameInfo = None
    /\ sdkPending = EmptyBag
    /\ sdkCompleted = {}
    /\ sdkLast = NoSdkRun

\* A new AuthModule in a browser whose local storage holds no session.
InitAuth ==
    /\ authPlayer = None
    /\ authToken = None
    /\ refreshToken = None
    /\ refreshTokenTimeout = FALSE
    /\ storedSession = None
    /\ authPending = EmptyBag
    /\ authLast = [op |-> "none", outcome |-> "none"]
    /\ loggedOut = FALSE

Init == InitSynchronizer /\ InitAnalytics /\ InitBackend /\ InitSDK /\ InitAuth

Next ==
    \/ \E g \in GameIds : initialize(g)
    \/ setPlayer(LocalPlayer)
    \/ createSession
    \/ \E c \in BagToSet(pending), sid \in SessionIds :
          createSessionResponse(c, Envelope(TRUE, Some(CreatedSession(sid, Get(player))), << >>))
    \/ \E c \in BagToSet(pending), r \in {FailureEnvelope, NoDataEnvelope, Thrown} :
          createSessionResponse(c, r)
    \/ \E c \in BagToSet(pending), ok \in BOOLEAN : createSessionConnected(c, ok)
    \/ \E sid \in SessionIds : joinSession(sid)
    \/ \E c \in BagToSet(pending) :
          /\ IsSome(c.sid)
          /\ \E r \in Responses({JoinedSession(Get(c.sid), Get(player))}) :
                joinSessionResponse(c, r)
    \/ \E c \in BagToSet(pending), ok \in BOOLEAN : joinSessionConnected(c, ok)
    \/ leaveSession
    \/ \E c \in BagToSet(pending), r \in Responses({None}) : leaveSessionResponse(c, r)
    \/ startSession
    \/ \E c \in BagToSet(pending) :
          /\ IsSome(c.sid)
          /\ \E r \in Responses(StateSnapshots(Get(c.sid))) : startSessionResponse(c, r)
          /\ UNCHANGED << backendState, posted >>
    \/ \E w \in WinnerIds : endSession(w)
    \/ \E c \in BagToSet(pending), r \in Responses({None}) : endSessionResponse(c, r)
    \/ \E u \in StateUpdates : updateGameState(u)
    \/ \E c \in BagToSet(pending) :
          /\ IsSome(c.sid)
          /\ \E r \in Responses(StateSnapshots(Get(c.sid))) : updateGameStateResponse(c, r)
          /\ UNCHANGED << backendState, posted >>
    \/ \E p \in PlayerIds, u \in PlayerStateUpdates :
          updatePlayerState(p, u) /\ UNCHANGED posted
    \/ \E cb \in Callbacks : ~InSeq(cb, stateUpdateCallbacks) /\ onStateUpdate(cb)
    \/ \E cb \in Callbacks : unregisterStateUpdate(cb)
    \/ \E cb \in Callbacks : ~InSeq(cb, sessionUpdateCallbacks) /\ onSessionUpdate(cb)
    \/ \E cb \in Callbacks : unregisterSessionUpdate(cb)
    \/ \E s \in SessionSnapshots : wsOpen /\ onSessionUpdateMessage(s)
    \/ \E sid \in SessionIds : \E st \in StateSnapshots(sid) :
          wsOpen /\ onGameStateUpdateMessage(st)
    \/ \E p \in PlayerIds : wsOpen /\ ~IsMember(p) /\ onPlayerJoinMessage(p)
    \/ \E p \in PlayerIds : wsOpen /\ onPlayerLeaveMessage(p)

Spec == Init /\ [][Next]_vars


\* ------------------------------------- two sessions at a time
\* The synchronizer of a game that creates a session while it joins another:
\* the backend names the created session "s1", the game joins "s2".
CreatedSessionId == "s1"
JoinableSessionIds == {"s2"}

NextSessions ==
    \/ \E g \in GameIds : initialize(g)
    \/ setPlayer(LocalPlayer)
    \/ createSession
    \/ \E c \in BagToSet(pending) :
          createSessionResponse(c, Envelope(TRUE, Some(CreatedSession(CreatedSessionId, Get(player))), << >>))
    \/ \E c \in BagToSet(pending), r \in {FailureEnvelope, NoDataEnvelope, Thrown} :
          createSessionResponse(c, r)
    \/ \E c \in BagToSet(pending), ok \in BOOLEAN : createSessionConnected(c, ok)
    \/ \E sid \in JoinableSessionIds : joinSession(sid)
    \/ \E c \in BagToSet(pending) :
          /\ IsSome(c.sid)
          /\ \E r \in Responses({JoinedSession(Get(c.sid), Get(player))}) :
                joinSessionResponse(c, r)
    \/ \E c \in BagToSet(pending), ok \in BOOLEAN : joinSessionConnected(c, ok)
    \/ leaveSession
    \/ \E c \in BagToSet(pending), r \in Responses({None}) : leaveSessionResponse(c, r)
    \/ \E cb \in Callbacks : ~InSeq(cb, sessionUpdateCallbacks) /\ onSessionUpdate(cb)
    \/ \E cb \in Callbacks : unregisterSessionUpdate(cb)

SpecSessions == Init /\ [][NextSessions]_vars

\* ------------------------------------ subscribers and players
\* The synchronizer of a game that registers callbacks more than once, one of
\* them throwing, and whose handlers are run for messages whenever they are
\* installed, a player joining more than once: what the registry and the
\* handlers do by themselves, whatever the state of the channel.
\* The game has no call in flight.
Idle == pending = EmptyBag

RegistryCallbacks == {"cb1", "cbThrows"}

\* Another entry fits in the players list of the local Session, if any.
CanJoin == IsSome(currentSession) => Len(Get(currentSession).players) < MaxPlayers

NextRegistry ==
    \/ \E g \in GameIds : Idle /\ initialize(g)
    \/ Idle /\ setPlayer(LocalPlayer)
    \/ Idle /\ createSession
    \/ \E c \in BagToSet(pending) :
          createSessionResponse(c, Envelope(TRUE, Some(CreatedSession(CreatedSessionId, Get(player))), << >>))
    \/ \E c \in BagToSet(pending) : createSessionConnected(c, TRUE)
    \/ \E cb \in RegistryCallbacks :
          Len(stateUpdateCallbacks) < MaxCallbacks /\ onStateUpdate(cb)
    \/ \E cb \in RegistryCallbacks : unregisterStateUpdate(cb)
    \/ \E cb \in RegistryCallbacks :
          Len(sessionUpdateCallbacks) < MaxCallbacks /\ onSessionUpdate(cb)
    \/ \E cb \in RegistryCallbacks : unregisterSessionUpdate(cb)
    \/ \E sid \in SessionIds : \E st \in StateSnapshots(sid) : onGameStateUpdateMessage(st)
    \/ \E p \in PlayerIds : CanJoin /\ onPlayerJoinMessage(p)
    \/ \E p \in PlayerIds : onPlayerLeaveMessage(p)

SpecRegistry == Init /\ [][NextRegistry]_vars

\* ------------------------------- player states, one call at a time
\* The synchronizer of a game that awaits each updatePlayerState call before
\* it makes the next, against the test server: POST /sessions/:id/state
\* merges the stateUpdate of the request into session.state and answers
\* with the merged state.
PlayerStatePartials ==
    { [score |-> 1], [score |-> 2], [status |-> "inactive"],
      [status |-> "eliminated", score |-> 2] }

\* session.state after the route has merged stateUpdate into it.
StateRoute(state, stateUpdate) ==
    Spread(Spread(IF IsSome(state) THEN Get(state) ELSE << >>, stateUpdate),
           [lastUpdated |-> "now"])

\* The stateUpdate of the request the last run has sent.
RequestedStateUpdate == Get(last.requests[1].body)

NextPlayerStates ==
    \/ \E g \in GameIds : Idle /\ initialize(g)
    \/ Idle /\ setPlayer(LocalPlayer)
    \/ Idle /\ createSession
    \/ \E c \in BagToSet(pending) :
          createSessionResponse(c, Envelope(TRUE, Some(CreatedSession(CreatedSessionId, Get(player))), << >>))
    \/ \E c \in BagToSet(pending) : createSessionConnected(c, TRUE)
    \/ \E cb \in Callbacks : Idle /\ ~InSeq(cb, stateUpdateCallbacks) /\ onStateUpdate(cb)
    \/ \E p \in PlayerIds, u \in PlayerStatePartials :
          Idle /\ updatePlayerState(p, u) /\ UNCHANGED posted
    \/ \E c \in Awaiting("updateGameState", "api") :
          /\ backendState' = Some(StateRoute(backendState, RequestedStateUpdate))
          /\ updateGameStateResponse(c, Envelope(TRUE, backendState', << >>))
          /\ UNCHANGED posted
    \/ \E c \in BagToSet(pending) :
          updateGameStateResponse(c, FailureEnvelope) /\ UNCHANGED << backendState, posted >>

SpecPlayerStates == Init /\ [][NextPlayerStates]_vars

\* --------------------------------- subscribers that re-enter
\* One pass of notifyStateUpdateCallbacks over subscribers that call back
\* into the module: "cbRegisters" calls onStateUpdate(cb1) when it is invoked,
\* "cbUnregisters" calls the function an onStateUpdate(cb1) returned.  The
\* for-of loop walks `array`, the array the field held when the loop began,
\* up to its length at each step; push appends to the array the field holds
\* (`array` itself while `same`), filter stores a new array in the field.
\* The result is the callbacks invoked and the field after the pass.
RECURSIVE NotifyPass(_, _, _, _, _)
NotifyPass(array, field, same, i, invoked) ==
    IF i > Len(array) THEN [invoked |-> invoked, callbacks |-> field]
    ELSE LET called == Append(invoked, << "state", array[i] >>)
         IN  IF array[i] = "cbRegisters"
             THEN IF same
                  THEN NotifyPass(Append(array, "cb1"), Append(array, "cb1"), TRUE, i + 1, called)
                  ELSE NotifyPass(array, Append(field, "cb1"), FALSE, i + 1, called)
             ELSE IF array[i] = "cbUnregisters"
             THEN NotifyPass(array, Filter(field, "cb1"), FALSE, i + 1, called)
             ELSE NotifyPass(array, field, same, i + 1, called)

\* The game_state_update handler with such subscribers.
onGameStateUpdateMessageReentrant(state) ==
    /\ IsSome(gameInfo)
    /\ currentState' = Some(state)
    /\ LET pass == NotifyPass(stateUpdateCallbacks, stateUpdateCallbacks, TRUE, 1, << >>)
       IN  /\ stateUpdateCallbacks' = pass.callbacks
           /\ last' = Push("game_state_update", state, pass.invoked)
    /\ UNCHANGED << gameInfo, player, currentSession, wsState, pending,
                    sessionUpdateCallbacks, restVars >>

NextReentrant ==
    \/ \E g \in GameIds : initialize(g)
    \/ \E cb \in {"cb1", "cbRegisters", "cbUnregisters"} :
          Len(stateUpdateCallbacks) < MaxCallbacks /\ onStateUpdate(cb)
    \/ \E cb \in {"cb1", "cbRegisters", "cbUnregisters"} : unregisterStateUpdate(cb)
    \/ \E sid \in SessionIds : \E st \in StateSnapshots(sid) :
          Len(stateUpdateCallbacks) <= MaxCallbacks /\ onGameStateUpdateMessageReentrant(st)

SpecReentrant == Init /\ [][NextReentrant]_vars

\* ------------------------------ player states, calls not awaited
\* The synchronizer of a game that makes updatePlayerState calls without
\* awaiting them, against the test server, which handles the requests in
\* the order they were made; the response to a request reaches the game
\* before the server handles the next.
Posted(playerId, playerState) ==
    [playerId |-> playerId, stateUpdate |-> PlayerStateUpdate(playerId, playerState)]

NextPlayerUpdates ==
    \/ \E g \in GameIds : Idle /\ initialize(g)
    \/ Idle /\ setPlayer(LocalPlayer)
    \/ Idle /\ ~IsSome(currentSession) /\ createSession
    \/ \E c \in BagToSet(pending) :
          createSessionResponse(c, Envelope(TRUE, Some(CreatedSession(CreatedSessionId, Get(player))), << >>))
    \/ \E c \in BagToSet(pending) : createSessionConnected(c, TRUE)
    \/ \E p \in PlayerIds, u \in {[score |-> 1], [status |-> "inactive"]} :
          /\ wsOpen
          /\ updatePlayerState(p, u)
          /\ posted' = Append(posted, Posted(p, u))
    \/ \E c \in Awaiting("updateGameState", "api") :
          /\ backendState' = Some(StateRoute(backendState, Head(posted).stateUpdate))
          /\ posted' = Tail(posted)
          /\ updateGameStateResponse(c, Envelope(TRUE, backendState', << >>))

SpecPlayerUpdates == Init /\ [][NextPlayerUpdates]_vars

\* ------------------------------------ one session, one call at a time
\* The synchronizer of a game that awaits each call before its next, creates
\* or joins a session only when it has none, and receives no push message:
\* what getCurrentSession() returned before a create or join is "no session".
NextAwaited ==
    \/ \E g \in GameIds : Idle /\ initialize(g)
    \/ Idle /\ setPlayer(LocalPlayer)
    \/ Idle /\ ~IsSome(currentSession) /\ createSession
    \/ \E c \in BagToSet(pending), r \in Responses({CreatedSession(CreatedSessionId, LocalPlayer)}) :
          createSessionResponse(c, r)
    \/ \E c \in BagToSet(pending), ok \in BOOLEAN : createSessionConnected(c, ok)
    \/ \E sid \in JoinableSessionIds : Idle /\ ~IsSome(currentSession) /\ joinSession(sid)
    \/ \E c \in BagToSet(pending), r \in Responses({JoinedSession("s2", LocalPlayer)}) :
          joinSessionResponse(c, r)
    \/ \E c \in BagToSet(pending), ok \in BOOLEAN : joinSessionConnected(c, ok)
    \/ Idle /\ leaveSession
    \/ \E c \in BagToSet(pending), r \in Responses({None}) : leaveSessionResponse(c, r)
    \/ \E cb \in Callbacks : Idle /\ ~InSeq(cb, sessionUpdateCallbacks) /\ onSessionUpdate(cb)
    \/ \E cb \in Callbacks : Idle /\ unregisterSessionUpdate(cb)
    \/ \E cb \in Callbacks : Idle /\ ~InSeq(cb, stateUpdateCallbacks) /\ onStateUpdate(cb)

SpecAwaited == Init /\ [][NextAwaited]_vars

\* ------------------------------------------------- analytics
\* The fields a handler run of AnalyticsModule works on.  An event is the
\* number of the trackEvent call that made it; a suspended flushEvents call
\* is its local `events` and its `sync` argument.
Analytics ==
    [eventQueue |-> eventQueue, isProcessingQueue |-> isProcessingQueue,
     inflight |-> inflight, tracked |-> tracked]

Becomes(a) ==
    /\ eventQueue' = a.eventQueue
    /\ isProcessingQueue' = a.isProcessingQueue
    /\ inflight' = a.inflight
    /\ tracked' = a.tracked

\* flushEvents that leaves its batch in the live queue.
FlushEventsKeepsQueue(a, sync) ==
    IF Len(a.eventQueue) = 0 \/ (a.isProcessingQueue /\ ~sync) THEN a
    ELSE [a EXCEPT !.isProcessingQueue = TRUE,
                   !.inflight = @ (+) SetToBag({[events |-> a.eventQueue, sync |-> sync]})]

\* flushEvents(sync) up to its request.
FlushEvents(a, sync) ==
    IF Len(a.eventQueue) = 0 \/ (a.isProcessingQueue /\ ~sync) THEN a
    ELSE [a EXCEPT !.isProcessingQueue = TRUE,
                   !.eventQueue = << >>,
                   !.inflight = @ (+) SetToBag({[events |-> a.eventQueue, sync |-> sync]})]

\* trackEvent of an initialized module.
TrackEvent(a) ==
    LET queued == [a EXCEPT !.tracked = @ + 1, !.eventQueue = Append(@, a.tracked + 1)]
    IN  IF Len(queued.eventQueue) >= MAX_QUEUE_SIZE THEN FlushEvents(queued, FALSE)
        ELSE queued

\* n calls of trackEvent in a row.
RECURSIVE TrackEvents(_, _)
TrackEvents(a, n) ==
    IF n = 0 THEN a
    ELSE LET b == TrackEvent(a)
         \* the comparison has b evaluated before the next call is applied to it
         IN  IF b.tracked > a.tracked THEN TrackEvents(b, n - 1) ELSE b

initializeAnalytics(g) ==
    /\ ~IsSome(anGameInfo)
    /\ anGameInfo' = Some(g)
    /\ flushInterval' = TRUE
    /\ UNCHANGED << eventQueue, isProcessingQueue, inflight, transmitted, tracked,
                    trackRuns, gsVars, backendState, posted, sdkVars, authVars >>

\* A handler run that calls trackEvent n times.  Without game info every
\* call throws, and catches, before it queues anything.
trackEvent(n) ==
    /\ trackRuns < MaxTrackRuns
    /\ trackRuns' = trackRuns + 1
    /\ IF ~IsSome(anGameInfo) THEN UNCHANGED << eventQueue, isProcessingQueue, inflight, tracked >>
       ELSE Becomes(TrackEvents(Analytics, n))
    /\ UNCHANGED << anGameInfo, flushInterval, transmitted, gsVars, backendState, posted, sdkVars, authVars >>

\* A call of flushEvents(sync) by the game.
flushEvents(sync) ==
    /\ Becomes(FlushEvents(Analytics, sync))
    /\ UNCHANGED << anGameInfo, flushInterval, transmitted, trackRuns, gsVars, backendState, posted, sdkVars, authVars >>

\* The setInterval callback of startFlushInterval.
flushTimer ==
    /\ flushInterval
    /\ Becomes(FlushEvents(Analytics, FALSE))
    /\ UNCHANGED << anGameInfo, flushInterval, transmitted, trackRuns, gsVars, backendState, posted, sdkVars, authVars >>

\* The beforeunload listener initialize installs.
beforeunload ==
    /\ IsSome(anGameInfo)
    /\ Becomes(FlushEvents(Analytics, TRUE))
    /\ UNCHANGED << anGameInfo, flushInterval, transmitted, trackRuns, gsVars, backendState, posted, sdkVars, authVars >>

stopFlushInterval ==
    /\ flushInterval' = FALSE
    /\ UNCHANGED << anGameInfo, eventQueue, isProcessingQueue, inflight, transmitted,
                    tracked, trackRuns, gsVars, backendState, posted, sdkVars, authVars >>

\* cleanup that flushes as the timer does, with sync false.
cleanupFlushesWithoutSync ==
    /\ flushInterval' = FALSE
    /\ Becomes(FlushEvents(Analytics, FALSE))
    /\ UNCHANGED << anGameInfo, transmitted, trackRuns, gsVars, backendState, posted, sdkVars, authVars >>

cleanup ==
    /\ flushInterval' = FALSE
    /\ Becomes(FlushEvents(Analytics, TRUE))
    /\ UNCHANGED << anGameInfo, transmitted, trackRuns, gsVars, backendState, posted, sdkVars, authVars >>

\* The queue a flush of `events` leaves when its request is answered.
RequeueRejected(events, queue) == events \o queue
RequeueThrown(events, queue) == queue

\* flushEvents from the response on.
flushEventsResponse(f, response) ==
    /\ BagIn(f, inflight)
    /\ inflight' = inflight (-) SetToBag({f})
    /\ IF response.thrown
       THEN /\ eventQueue' = RequeueThrown(f.events, eventQueue)
            /\ UNCHANGED transmitted
       ELSE IF ~response.success
       THEN /\ eventQueue' = RequeueRejected(f.events, eventQueue)
            /\ UNCHANGED transmitted
       ELSE /\ transmitted' = Append(transmitted, f.events)
            /\ UNCHANGED eventQueue
    /\ isProcessingQueue' = FALSE
    /\ UNCHANGED << anGameInfo, flushInterval, tracked, trackRuns, gsVars, backendState, posted, sdkVars, authVars >>

NextAnalytics ==
    \/ \E g \in GameIds : initializeAnalytics(g)
    \/ \E n \in {1, MAX_QUEUE_SIZE - 1} : trackEvent(n)
    \/ \E sync \in BOOLEAN : flushEvents(sync)
    \/ flushTimer
    \/ beforeunload
    \/ stopFlushInterval
    \/ cleanup
    \/ \E f \in BagToSet(inflight), r \in {Envelope(TRUE, Some(None), << >>), FailureEnvelope, Thrown} :
          flushEventsResponse(f, r)

SpecAnalytics == Init /\ [][NextAnalytics]_vars

\* ------------------------------------------- analytics, retried
\* The event queue of a game that only tracks, under the flush timer, with a
\* backend that fails batches, by a failure envelope or by a rejected
\* request, until it accepts its first batch and accepts every batch from
\* then on.
AcceptedEnvelope == Envelope(TRUE, Some(None), << >>)
BackendAccepts == transmitted /= << >>

flushAccepted == \E f \in BagToSet(inflight) : flushEventsResponse(f, AcceptedEnvelope)

NextRetry ==
    \/ \E g \in GameIds : initializeAnalytics(g)
    \/ \E n \in {1, MAX_QUEUE_SIZE - 1} : trackEvent(n)
    \/ flushTimer
    \/ \E f \in BagToSet(inflight), r \in {FailureEnvelope, Thrown} :
          ~BackendAccepts /\ flushEventsResponse(f, r)
    \/ flushAccepted

\* setInterval keeps calling the timer callback, and the transmission of a
\* batch ends; the backend does not fail for ever.
SpecRetry ==
    /\ Init /\ [][NextRetry]_vars
    /\ WF_vars(flushTimer)
    /\ SF_vars(flushAccepted)


\* ------------------------------------------- the push channel
\* The calls suspended at `await this.wsClient.connect()`.
WsWaiters(calls) == { c \in BagToSet(calls) : c.stage = "ws" }

\* The open channel is closed by the other side or by the network: the
\* client schedules a reconnection.
wsClosedUnexpectedly ==
    /\ wsState = "open"
    /\ wsState' = "closed"
    /\ wsSockets' = 0
    /\ wsReconnect' = TRUE
    /\ UNCHANGED << gameInfo, player, currentSession, currentState, pending, last, gsRest,
                    otherVars >>

\* The backoff timer of a scheduled reconnection fires: the client connects.
wsReconnectTimer ==
    /\ wsReconnect
    /\ wsState' = connect
    /\ wsSockets' = IF wsState = "closed" THEN wsSockets + 1 ELSE wsSockets
    /\ wsReconnect' = FALSE
    /\ UNCHANGED << gameInfo, player, currentSession, currentState, pending, last, gsRest,
                    otherVars >>

\* A connection attempt no call waits for settles: the channel is open, or
\* the client schedules the next attempt.
wsAttemptSettled(ok) ==
    /\ wsState = "connecting"
    /\ WsWaiters(pending) = {}
    /\ IF ok
       THEN /\ wsState' = "open"
            /\ UNCHANGED chVars
       ELSE /\ wsState' = "closed"
            /\ wsSockets' = 0
            /\ wsReconnect' = TRUE
    /\ UNCHANGED << gameInfo, player, currentSession, currentState, pending, last, gsRest,
                    otherVars >>

\* The synchronizer of a game that creates, joins and leaves sessions, also
\* without awaiting, on a channel that is closed under it and reconnects.
NextChannel ==
    \/ \E g \in GameIds : Idle /\ initialize(g)
    \/ Idle /\ setPlayer(LocalPlayer)
    \/ createSession
    \/ \E c \in BagToSet(pending) :
          createSessionResponse(c, Envelope(TRUE, Some(CreatedSession(CreatedSessionId, Get(player))), << >>))
    \/ \E c \in BagToSet(pending), ok \in BOOLEAN : createSessionConnected(c, ok)
    \/ \E sid \in JoinableSessionIds : joinSession(sid)
    \/ \E c \in BagToSet(pending) :
          /\ IsSome(c.sid)
          /\ joinSessionResponse(c, Envelope(TRUE, Some(JoinedSession(Get(c.sid), Get(player))), << >>))
    \/ \E c \in BagToSet(pending), ok \in BOOLEAN : joinSessionConnected(c, ok)
    \/ leaveSession
    \/ \E c \in BagToSet(pending), r \in {Envelope(TRUE, Some(None), << >>), Thrown} :
          leaveSessionResponse(c, r)
    \/ WsWaiters(pending) = {} /\ wsClosedUnexpectedly
    \/ wsReconnectTimer
    \/ \E ok \in BOOLEAN : wsAttemptSettled(ok)

SpecChannel == Init /\ [][NextChannel]_vars


\* ------------------------------------------------------ MutableSDK
\* GameInfo as MutableSDK.initialize reads it: id, name and version.
SdkGameInfo(id, name, version) == [id |-> id, name |-> name, version |-> version]

CompleteGameInfos ==
    { SdkGameInfo("g1", "Game One", "1.0.0"), SdkGameInfo("g2", "Game Two", "1.0.0") }

IncompleteGameInfos ==
    { SdkGameInfo("", "Game One", "1.0.0"), SdkGameInfo("g1", "", "1.0.0"),
      SdkGameInfo("g1", "Game One", "") }

\* !gameInfo.id || !gameInfo.name || !gameInfo.version
Incomplete(info) == info.id = "" \/ info.name = "" \/ info.version = ""

\* new Error("Game information is incomplete. ..."): an Error that is no
\* MutableSDKError and carries no code.
IncompleteGameInfoError == << "Error" >>

\* A suspended initialize call: its argument and the module whose
\* initialize() it awaits.
SdkCall(info, stage) == [gameInfo |-> info, stage |-> stage]
SdkAwaiting(stage) == { c \in BagToSet(sdkPending) : c.stage = stage }
SdkDid(info, outcome, error, modules) ==
    [op |-> "initialize", args |-> Some(info), outcome |-> outcome, error |-> error,
     modules |-> modules]

\* MutableSDK.initialize up to `await this.auth.initialize()`: the catch
\* block rethrows what the check threw.
sdkInitialize(info) ==
    /\ IF Incomplete(info)
         THEN /\ sdkLast' = SdkDid(info, "rejected", IncompleteGameInfoError, << >>)
              /\ UNCHANGED << sdkGameInfo, sdkPending >>
         ELSE /\ BagCardinality(sdkPending) < MaxInitializing
              /\ sdkGameInfo' = Some(info)
              /\ sdkPending' = sdkPending (+) SetToBag({SdkCall(info, "auth")})
              /\ sdkLast' = SdkDid(info, "pending", << >>, << "auth" >>)
    /\ UNCHANGED << sdkInitialized, sdkCompleted, gsVars, anVars, backendState, posted, authVars >>

\* The call continues after auth.initialize(): gameState.initialize(gameInfo)
\* stores the game info in the GameStateModule.
sdkInitializeAfterAuth(c) ==
    /\ c \in SdkAwaiting("auth")
    /\ gameInfo' = Some(c.gameInfo)
    /\ sdkPending' = (sdkPending (-) SetToBag({c}))
                        (+) SetToBag({SdkCall(c.gameInfo, "gameState")})
    /\ sdkLast' = SdkDid(c.gameInfo, "pending", << >>, << "gameState" >>)
    /\ UNCHANGED << sdkInitialized, sdkGameInfo, sdkCompleted, player, currentSession,
                    currentState, stateUpdateCallbacks, sessionUpdateCallbacks, wsState,
                    chVars, pending, last, anVars, backendState, posted, authVars >>

\* The call continues after gameState.initialize(): transactions.initialize().
sdkInitializeAfterGameState(c) ==
    /\ c \in SdkAwaiting("gameState")
    /\ sdkPending' = (sdkPending (-) SetToBag({c}))
                        (+) SetToBag({SdkCall(c.gameInfo, "transactions")})
    /\ sdkLast' = SdkDid(c.gameInfo, "pending", << >>, << "transactions" >>)
    /\ UNCHANGED << sdkInitialized, sdkGameInfo, sdkCompleted, gsVars, anVars, backendState, posted, authVars >>

\* The call continues after transactions.initialize() and resolves.
sdkInitializeAfterTransactions(c) ==
    /\ c \in SdkAwaiting("transactions")
    /\ sdkInitialized' = TRUE
    /\ sdkPending' = sdkPending (-) SetToBag({c})
    /\ sdkCompleted' = sdkCompleted \cup {c.gameInfo}
    /\ sdkLast' = SdkDid(c.gameInfo, "resolved", << >>, << >>)
    /\ UNCHANGED << sdkGameInfo, gsVars, anVars, backendState, posted, authVars >>

\* The game initializes the SDK, also again and while an earlier call runs.
NextSDK ==
    \/ \E info \in CompleteGameInfos \cup IncompleteGameInfos : sdkInitialize(info)
    \/ \E c \in BagToSet(sdkPending) : sdkInitializeAfterAuth(c)
    \/ \E c \in BagToSet(sdkPending) : sdkInitializeAfterGameState(c)
    \/ \E c \in BagToSet(sdkPending) : sdkInitializeAfterTransactions(c)

SpecSDK == Init /\ [][NextSDK]_vars


\* ------------------------------------------------------ AuthModule
\* A suspended call of the AuthModule, at its request.
AuthCall(op) == [op |-> op]
AuthDid(op, outcome) == [op |-> op, outcome |-> outcome]

\* saveSession(): what localStorage holds afterwards.
SavedSession(p, token, refresh) ==
    Some([player |-> p, authToken |-> token, refreshToken |-> refresh])

\* logout() called with `calls` suspended and the refresh timer at `timer`:
\* with a token it is suspended at its request; without one it runs to its
\* end and clears the auth data, the stored session and the timer.
Logout(calls, timer) ==
    IF IsSome(authToken)
    THEN /\ authPending' = calls (+) SetToBag({AuthCall("logout")})
         /\ refreshTokenTimeout' = timer
         /\ UNCHANGED << authPlayer, authToken, refreshToken, storedSession, loggedOut >>
    ELSE /\ authPending' = calls
         /\ authPlayer' = None
         /\ authToken' = None
         /\ refreshToken' = None
         /\ storedSession' = None
         /\ refreshTokenTimeout' = FALSE
         /\ loggedOut' = TRUE

\* authenticateAsGuest and authenticateWithWallet up to their request.
authenticateAsGuest ==
    /\ BagCardinality(authPending) < MaxPending
    /\ authPending' = authPending (+) SetToBag({AuthCall("authenticate")})
    /\ authLast' = AuthDid("authenticate", "pending")
    /\ loggedOut' = FALSE
    /\ UNCHANGED << authPlayer, authToken, refreshToken, refreshTokenTimeout, storedSession,
                    gsVars, anVars, backendState, posted, sdkVars >>

\* From the response on: the auth data are set, saved, and the refresh timer
\* is set in place of the one that was pending.
authenticateResponse(c, response) ==
    /\ c \in BagToSet(authPending) /\ c.op = "authenticate"
    /\ authPending' = authPending (-) SetToBag({c})
    /\ IF response.thrown \/ IsLogicalFailure(response)
       THEN /\ authLast' = AuthDid("authenticate", "rejected")
            /\ UNCHANGED << authPlayer, authToken, refreshToken, refreshTokenTimeout,
                            storedSession, loggedOut >>
       ELSE /\ loggedOut' = FALSE
            /\ authPlayer' = Some(LocalPlayer)
            /\ authToken' = Some("t1")
            /\ refreshToken' = Some("r1")
            /\ storedSession' = SavedSession(authPlayer', authToken', refreshToken')
            /\ refreshTokenTimeout' = TRUE
            /\ authLast' = AuthDid("authenticate", "resolved")
    /\ UNCHANGED << gsVars, anVars, backendState, posted, sdkVars >>

\* logout up to its request, or to its end when there is no token.
logout ==
    /\ IsSome(authToken) => BagCardinality(authPending) < MaxPending
    /\ Logout(authPending, refreshTokenTimeout)
    /\ authLast' = AuthDid("logout", IF IsSome(authToken) THEN "pending" ELSE "resolved")
    /\ UNCHANGED << gsVars, anVars, backendState, posted, sdkVars >>

\* logout from the response on: the envelope is not looked at; when the
\* request threw, the catch block clears the stored session and nothing else.
logoutResponse(c, response) ==
    /\ c \in BagToSet(authPending) /\ c.op = "logout"
    /\ authPending' = authPending (-) SetToBag({c})
    /\ storedSession' = None
    /\ IF response.thrown
       THEN UNCHANGED << authPlayer, authToken, refreshToken, refreshTokenTimeout >>
       ELSE /\ authPlayer' = None
            /\ authToken' = None
            /\ refreshToken' = None
            /\ refreshTokenTimeout' = FALSE
    /\ loggedOut' = TRUE
    /\ authLast' = AuthDid("logout", "resolved")
    /\ UNCHANGED << gsVars, anVars, backendState, posted, sdkVars >>

\* The refresh timer fires: refreshAuthToken up to its request; without a
\* refresh token its catch block calls logout().
refreshAuthToken ==
    /\ refreshTokenTimeout
    /\ BagCardinality(authPending) < MaxPending
    /\ IF IsSome(refreshToken)
       THEN /\ authPending' = authPending (+) SetToBag({AuthCall("refreshAuthToken")})
            /\ refreshTokenTimeout' = FALSE
            /\ UNCHANGED << authPlayer, authToken, refreshToken, storedSession, loggedOut >>
       ELSE Logout(authPending, FALSE)
    /\ authLast' = AuthDid("refreshAuthToken", "pending")
    /\ UNCHANGED << gsVars, anVars, backendState, posted, sdkVars >>

\* refreshAuthToken from the response on: the new tokens are stored and
\* saved and the next refresh is scheduled; a failure calls logout().
refreshAuthTokenResponse(c, response) ==
    /\ c \in BagToSet(authPending) /\ c.op = "refreshAuthToken"
    /\ IF response.thrown \/ IsLogicalFailure(response)
       THEN /\ Logout(authPending (-) SetToBag({c}), refreshTokenTimeout)
            /\ authLast' = AuthDid("refreshAuthToken", "rejected")
       ELSE /\ authPending' = authPending (-) SetToBag({c})
            /\ authToken' = Some("t2")
            /\ refreshToken' = Some("r2")
            /\ storedSession' = SavedSession(authPlayer, authToken', refreshToken')
            /\ refreshTokenTimeout' = TRUE
            /\ authLast' = AuthDid("refreshAuthToken", "resolved")
            /\ UNCHANGED << authPlayer, loggedOut >>
    /\ UNCHANGED << gsVars, anVars, backendState, posted, sdkVars >>

NextAuth ==
    \/ authenticateAsGuest
    \/ \E c \in BagToSet(authPending), r \in Responses({"auth"}) : authenticateResponse(c, r)
    \/ logout
    \/ \E c \in BagToSet(authPending), r \in Responses({None}) : logoutResponse(c, r)
    \/ refreshAuthToken
    \/ \E c \in BagToSet(authPending), r \in Responses({"tokens"}) :
          refreshAuthTokenResponse(c, r)

SpecAuth == Init /\ [][NextAuth]_vars


\* ------------------------------------------------- properties
Present(o) == o /= None

\* C1: with a session, leaveSession ends, whatever the leave request did,
\* with the push channel detached and no local Session and GameState.
C1_LeaveAlwaysClears ==
    (last.op = "leaveSession" /\ Present(last.resumed))
        => (wsState = "closed" /\ ~Present(currentSession) /\ ~Present(currentState))

\* C2: a flush whose batch was not transmitted (failure envelope or thrown
\* request) leaves the queue as that batch followed by what was queued since.
C2_FailedBatchRequeued ==
    [][ \A f \in BagToSet(inflight) :
            (inflight' = inflight (-) SetToBag({f}) /\ transmitted' = transmitted)
                => eventQueue' = f.events \o eventQueue ]_vars

RECURSIVE Flatten(_)
Flatten(batches) ==
    IF batches = << >> THEN << >> ELSE Head(batches) \o Flatten(Tail(batches))

Increasing(seq) == \A i \in 1..(Len(seq) - 1) : seq[i] < seq[i + 1]
Elements(seq) == { seq[i] : i \in 1..Len(seq) }

\* The events of inflight and of the queue, and how many there are.
Untransmitted ==
    Elements(eventQueue) \cup UNION { Elements(f.events) : f \in BagToSet(inflight) }
UntransmittedCount ==
    LET batches == BagToSet(inflight)
        RECURSIVE Sum(_)
        Sum(S) == IF S = {} THEN 0
                  ELSE LET f == CHOOSE x \in S : TRUE
                       IN  Len(f.events) * CopiesIn(f, inflight) + Sum(S \ {f})
    IN  Len(eventQueue) + Sum(batches)

\* C3: the transmitted batches in order, then the events in flight or queued,
\* hold every tracked event once, in the order of tracking.
C3_NoEventLostOrReordered ==
    LET sent == Flatten(transmitted)
    IN  /\ Elements(sent) \cup Untransmitted = 1..tracked
        /\ Len(sent) + UntransmittedCount = tracked
        /\ Increasing(sent)
        /\ Increasing(eventQueue)
        /\ \A e \in Untransmitted : \A i \in 1..Len(sent) : sent[i] < e

\* C4: a local GameState is the state of the local Session.
C4_StateBelongsToSession ==
    Present(currentState)
        => (Present(currentSession)
            /\ Get(currentState).sessionId = Get(currentSession).sessionId)

\* C5: once the local GameState is 'completed', no response and no pushed
\* snapshot changes it.
C5_CompletedIsTerminal ==
    [][ (/\ Present(currentState)
         /\ Get(currentState).status = "completed"
         /\ last'.op \in {"updateGameState", "startSession", "game_state_update"})
            => currentState' = currentState ]_vars

\* C6: the host of a local Session that is not completed or aborted is one
\* of its players.
C6_HostIsPlayer ==
    (Present(currentSession) /\ Get(currentSession).status \notin {"completed", "aborted"})
        => InSeq(Get(currentSession).hostId, Get(currentSession).players)

NoSessionMethods == {"startSession", "endSession", "updateGameState", "updatePlayerState"}

\* C7: startSession, endSession, updateGameState and updatePlayerState called
\* without a session reject with INVALID_GAME_STATE, request nothing, send
\* nothing, notify nobody and change neither Session nor GameState.
C7_NoSessionRejects ==
    [][ (last'.op \in NoSessionMethods /\ ~Present(last'.resumed) /\ ~Present(currentSession))
            => /\ last'.outcome = "rejected"
               /\ Head(last'.error) = INVALID_GAME_STATE
               /\ last'.requests = << >>
               /\ last'.sent = << >>
               /\ last'.notified = << >>
               /\ pending' = pending
               /\ currentSession' = currentSession
               /\ currentState' = currentState ]_vars

C7_Witness ==
    /\ last.op = "updatePlayerState"
    /\ last.outcome = "rejected"
    /\ ~Present(currentSession)
    /\ Len(stateUpdateCallbacks) > 0
    /\ Len(sessionUpdateCallbacks) > 0

\* C8: createSession before initialize rejects with INVALID_CONFIGURATION,
\* requests nothing and changes no local state.
C8_UninitializedCreateIsConfigurationError ==
    (last.op = "createSession" /\ ~Present(last.resumed) /\ ~Present(gameInfo))
        => /\ last.outcome = "rejected"
           /\ Head(last.error) = INVALID_CONFIGURATION
           /\ last.requests = << >>

RequestMethods == {"createSession", "joinSession", "startSession", "updateGameState"}

\* C9: a response with success=false or without data makes createSession,
\* joinSession, startSession and updateGameState reject with a typed error
\* that carries the cause, with Session and GameState as they were and
\* nobody notified.
C9_LogicalFailureRejects ==
    [][ (/\ last'.op \in RequestMethods
         /\ Present(last'.response)
         /\ ~Get(last'.response).thrown
         /\ (~Get(last'.response).success \/ ~Present(Get(last'.response).data)))
            => /\ last'.outcome = "rejected"
               /\ Len(last'.error) >= 2
               /\ Head(last'.error) = INVALID_GAME_STATE
               /\ SubSeq(last'.error, 3, Len(last'.error)) = Get(last'.response).error
               /\ currentSession' = currentSession
               /\ currentState' = currentState
               /\ last'.notified = << >> ]_vars

C9_Witness ==
    /\ last.op = "updateGameState"
    /\ Present(last.response)
    /\ ~Get(last.response).thrown
    /\ Get(last.response).success
    /\ ~Present(Get(last.response).data)
    /\ last.outcome = "rejected"
    /\ Present(currentState)
    /\ Len(stateUpdateCallbacks) > 0

\* C10: endSession rejects with INVALID_GAME_STATE when the backend answers
\* its request with success=false.
C10_EndSessionRejectsOnFailure ==
    (/\ last.op = "endSession"
     /\ Present(last.response)
     /\ ~Get(last.response).thrown
     /\ ~Get(last.response).success)
        => (last.outcome = "rejected" /\ Head(last.error) = INVALID_GAME_STATE)

\* The updateGameState calls suspended at their request.
UpdatesInFlight(p) ==
    LET calls == { c \in BagToSet(p) : c.op = "updateGameState" /\ c.stage = "api" }
        RECURSIVE Sum(_)
        Sum(S) == IF S = {} THEN 0
                  ELSE LET c == CHOOSE x \in S : TRUE IN CopiesIn(c, p) + Sum(S \ {c})
    IN  Sum(calls)

\* C12: an updateGameState call made while another is in flight issues its
\* request at once, so both are in flight together, and every response that
\* succeeds stores its snapshot: after both, the stored GameState is the
\* snapshot of the response that arrived last.
C12_LastResolvedWins ==
    [][ /\ (/\ last'.op = "updateGameState"
            /\ ~Present(last'.resumed)
            /\ Present(currentSession))
               => /\ last'.outcome = "pending"
                  /\ Len(last'.requests) = 1
                  /\ UpdatesInFlight(pending') = UpdatesInFlight(pending) + 1
        /\ (/\ last'.op = "updateGameState"
            /\ Present(last'.resumed)
            /\ last'.outcome = "resolved")
               => /\ currentState' = Get(last'.response).data
                  /\ last'.value = Get(last'.response).data ]_vars

\* The first of two updates in flight has resolved and its snapshot is stored;
\* the second is still in flight.
C12_Witness ==
    /\ last.op = "updateGameState"
    /\ Present(last.resumed)
    /\ last.outcome = "resolved"
    /\ UpdatesInFlight(pending) = 1
    /\ currentState = Get(last.response).data
    /\ Get(currentState).status = "completed"

UpdateMethods == {"updateGameState", "updatePlayerState"}

\* C14: an update with a session sends the partial on the push channel and
\* then requests it from the backend, once each and for the local session;
\* what the call resolves with and what is stored is the snapshot of the
\* response, and the continuation sends nothing.
C14_SendThenRequestResponseIsAuthoritative ==
    [][ /\ (/\ last'.op \in UpdateMethods
            /\ ~Present(last'.resumed)
            /\ Present(currentSession))
               => /\ last'.effects = << "send", "request" >>
                  /\ last'.sent[1].event = "game_state_update"
                  /\ last'.sent[1].sid = Some(Get(currentSession).sessionId)
                  /\ last'.requests[1].path = "state"
                  /\ last'.requests[1].sid = Some(Get(currentSession).sessionId)
                  /\ last'.requests[1].body = Some(last'.sent[1].payload)
                  /\ last'.outcome = "pending"
                  /\ currentState' = currentState
        /\ (/\ last'.op \in UpdateMethods
            /\ Present(last'.resumed)
            /\ last'.outcome = "resolved")
               => /\ Get(last'.response).success
                  /\ last'.value = Get(last'.response).data
                  /\ currentState' = last'.value
                  /\ last'.sent = << >>
                  /\ last'.requests = << >> ]_vars

\* An update of the status is suspended at its request, sent on an open channel.
C14_Witness ==
    /\ last.op = "updateGameState"
    /\ last.outcome = "pending"
    /\ wsOpen
    /\ last.sent = << Msg("game_state_update", Some("s1"), [status |-> "completed"]) >>
    /\ Present(currentState)

\* Every callback of a list, in the order of the list.
EveryCallback(kind, callbacks) == [i \in 1..Len(callbacks) |-> << kind, callbacks[i] >>]

\* C15: a pushed session snapshot becomes the local Session as it is and the
\* session subscribers are notified; a pushed state snapshot becomes the
\* local GameState as it is and the state subscribers are notified; the
\* other of the two is left alone.
C15_PushedSnapshotReplaces ==
    [][ /\ last'.op = "session_update"
               => /\ currentSession' = last'.received
                  /\ last'.notified = EveryCallback("session", sessionUpdateCallbacks)
                  /\ currentState' = currentState
        /\ last'.op = "game_state_update"
               => /\ currentState' = last'.received
                  /\ last'.notified = EveryCallback("state", stateUpdateCallbacks)
                  /\ currentSession' = currentSession ]_vars

\* A pushed snapshot of a session of one player has replaced a Session of two,
\* and a subscriber was told.
C15_Witness ==
    /\ last.op = "session_update"
    /\ last.received = Some(Session("s1", << "p1" >>, "p1", "playing"))
    /\ currentSession = last.received
    /\ Len(last.notified) = 1
    /\ Present(currentState)

\* The local Session is there and completed.
SessionCompleted(session) == Present(session) /\ Get(session).status = "completed"

\* C19: endSession with a session issues the end request with the winner
\* ids it was given; neither that run nor its continuation changes the local
\* Session or GameState or notifies anybody, and the local Session becomes
\* completed only by a pushed session snapshot that says so.
C19_EndSessionChangesNothingLocally ==
    [][ /\ (last'.op = "endSession" /\ ~Present(last'.resumed) /\ Present(currentSession))
               => /\ last'.outcome = "pending"
                  /\ Len(last'.requests) = 1
                  /\ last'.requests[1].path = "end"
                  /\ last'.requests[1].sid = Some(Get(currentSession).sessionId)
                  /\ last'.requests[1].body \in WinnerIds
                  /\ last'.notified = << >>
                  /\ currentSession' = currentSession
                  /\ currentState' = currentState
        /\ (last'.op = "endSession" /\ Present(last'.resumed))
               => /\ last'.notified = << >>
                  /\ currentSession' = currentSession
                  /\ currentState' = currentState
        /\ (SessionCompleted(currentSession') /\ ~SessionCompleted(currentSession))
               => /\ last'.op = "session_update"
                  /\ last'.received = currentSession' ]_vars

\* endSession with winner ids has resolved on a success envelope; the Session
\* is as it was, not completed, and there are subscribers.
C19_Witness ==
    /\ last.op = "endSession"
    /\ last.outcome = "resolved"
    /\ Present(last.response) /\ Get(last.response).success
    /\ Present(currentSession) /\ Get(currentSession).status = "waiting"
    /\ Present(currentState)
    /\ Len(sessionUpdateCallbacks) > 0

\* C20: leaveSession without a session resolves, requests and sends nothing,
\* calls nothing of the push channel, notifies nobody and changes no field
\* of the synchronizer, however often it is called.
C20_LeaveWithoutSessionIsNoOp ==
    [][ (last'.op = "leaveSession" /\ ~Present(last'.resumed) /\ ~Present(currentSession))
            => /\ last' = Resolved("leaveSession", None, << >>, << >>)
               /\ last'.effects = << >>
               /\ UNCHANGED << gameInfo, player, currentSession, currentState,
                               stateUpdateCallbacks, sessionUpdateCallbacks, wsState,
                               pending >> ]_vars

\* leaveSession was called without a session, with subscribers registered and
\* another call suspended.
C20_Witness ==
    /\ last = Resolved("leaveSession", None, << >>, << >>)
    /\ ~Present(currentSession)
    /\ pending /= EmptyBag
    /\ Len(stateUpdateCallbacks) > 0
    /\ Len(sessionUpdateCallbacks) > 0

\* C11: when createSession or joinSession resolves, the local Session is
\* the session of its response, the push channel is open, the join message
\* for that session was sent on it, every session subscriber was notified,
\* and the call resolves with the local Session.
C11_ResolvedCreateOrJoinHasItsSession ==
    (last.op \in {"createSession", "joinSession"} /\ last.outcome = "resolved")
        => /\ Present(currentSession)
           /\ Some(Get(currentSession).sessionId) = Get(last.resumed).sid
           /\ wsOpen
           /\ last.sent = << Msg("join_session", Get(last.resumed).sid, player) >>
           /\ last.notified = EveryCallback("session", sessionUpdateCallbacks)
           /\ last.value = currentSession

\* The PlayerState of id in a stored GameState, the default without one.
PlayerStateOf(state, id) ==
    IF Present(state) /\ "playerStates" \in DOMAIN Get(state)
                      /\ id \in DOMAIN Get(state).playerStates
    THEN Get(state).playerStates[id]
    ELSE DefaultPlayerState(id)

\* C13: when updatePlayerState(id, partial) calls are made one after the
\* other, each awaited and with no other update in between, against a backend
\* that merges as the test server does, every call that resolves leaves for
\* id the field-wise merge of its partial over what the calls before it left
\* (over {playerId: id, status: 'active', score: 0} for the first), which is
\* the merge of all the partials in call order over that default; the
\* PlayerStates of the other players stay, and the call resolves with the
\* stored GameState.
C13_AwaitedPartialsMerge ==
    [][(/\ last.op = "updatePlayerState" /\ last.outcome = "pending"
        /\ last'.outcome = "resolved")
          => /\ Present(currentState')
             /\ PlayerStateOf(currentState', last.args[1]) =
                    Spread(PlayerStateOf(currentState, last.args[1]), last.args[2])
             /\ \A other \in PlayerIds \ {last.args[1]} :
                    PlayerStateOf(currentState', other) = PlayerStateOf(currentState, other)
             /\ last'.value = currentState']_vars

\* C13 witness: updatePlayerState('p1', {score: 2}) and then
\* updatePlayerState('p1', {status: 'inactive'}) have resolved, and the
\* PlayerState of p1 has the fields of both over the default.
C13_Witness ==
    /\ last.outcome = "resolved" /\ last.op = "updateGameState"
    /\ PlayerStateOf(currentState, "p1") = [playerId |-> "p1", status |-> "inactive", score |-> 2]
    /\ PlayerStateOf(currentState, "p2") = [playerId |-> "p2", status |-> "eliminated", score |-> 1]

\* The callbacks of a notification are registered for it in `callbacks`.
OnlyRegistered(notified, kind, callbacks) ==
    \A i \in 1..Len(notified) : notified[i][1] = kind => InSeq(notified[i][2], callbacks)

\* C16: a run of the player_join or the player_leave handler with a local
\* Session appends the player to its players list, or removes from it the
\* entries with the given identifier, leaves every other field of the
\* Session, the GameState and the subscriber lists as they are, and invokes
\* every session subscriber once per registration; without a local Session it
\* changes nothing and invokes nobody.
C16_PlayerPushChangesPlayersOnly ==
    [][last'.op \in {"player_join", "player_leave"}
          => /\ UNCHANGED << currentState, stateUpdateCallbacks, sessionUpdateCallbacks,
                             gameInfo, player, wsState, pending >>
             /\ IF Present(currentSession)
                THEN /\ Present(currentSession')
                     /\ currentSession' = Some([Get(currentSession) EXCEPT !.players =
                            IF last'.op = "player_join"
                            THEN Append(@, Get(last'.received))
                            ELSE SelectSeq(@, LAMBDA q : q /= Get(last'.received))])
                     /\ last'.notified = EveryCallback("session", sessionUpdateCallbacks)
                ELSE /\ currentSession' = currentSession
                     /\ last'.notified = << >>]_vars

\* C16 witness: p1 has left a Session that had it twice, a session
\* subscriber was told, and only p2 is left in the players list.
C16_Witness ==
    /\ last.op = "player_leave" /\ last.received = Some("p1")
    /\ Present(currentSession) /\ Get(currentSession).players = << "p2" >>
    /\ last.notified /= << >>

\* C17: the function onStateUpdate or onSessionUpdate returned leaves no
\* registration of its callback, a call of it for a callback that is not
\* registered changes nothing, no call of it throws, and a notification
\* invokes only callbacks that are registered when it starts.
C17_UnregisterIsIdempotent ==
    [][/\ last'.op = "unregisterStateUpdate"
            => /\ ~InSeq(last'.args[1], stateUpdateCallbacks')
               /\ ~InSeq(last'.args[1], stateUpdateCallbacks)
                     => stateUpdateCallbacks' = stateUpdateCallbacks
               /\ last'.outcome = "none"
               /\ UNCHANGED << sessionUpdateCallbacks, currentSession, currentState >>
       /\ last'.op = "unregisterSessionUpdate"
            => /\ ~InSeq(last'.args[1], sessionUpdateCallbacks')
               /\ ~InSeq(last'.args[1], sessionUpdateCallbacks)
                     => sessionUpdateCallbacks' = sessionUpdateCallbacks
               /\ last'.outcome = "none"
               /\ UNCHANGED << stateUpdateCallbacks, currentSession, currentState >>
       /\ OnlyRegistered(last'.notified, "state", stateUpdateCallbacks)
       /\ OnlyRegistered(last'.notified, "session", sessionUpdateCallbacks)]_vars

\* C17 witness: the unregister function of cb1 has run again, removing
\* nothing, while cbThrows is registered for state updates.
C17_Witness ==
    /\ last.op = "unregisterStateUpdate" /\ last.args = << "cb1" >>
    /\ last.effects = << >>
    /\ stateUpdateCallbacks = << "cbThrows" >>

\* The run notifies the session subscribers, or the state subscribers.
NotifiesSession ==
    \/ last.op = "createSession" /\ last.outcome = "resolved"
    \/ last.op \in {"player_join", "player_leave"} /\ Present(currentSession)
NotifiesState == last.op = "game_state_update"

\* C18: a notification invokes every registered callback, in registration
\* order, those registered after a callback that throws included, and the
\* createSession call or the push handler that notifies ends as it does
\* without a callback that throws.
C18_EveryCallbackIsInvoked ==
    /\ NotifiesSession => last.notified = EveryCallback("session", sessionUpdateCallbacks)
    /\ NotifiesState => /\ last.notified = EveryCallback("state", stateUpdateCallbacks)
                        /\ currentState = last.received
    /\ (last.op = "createSession" /\ Present(last.resumed) /\ Get(last.resumed).stage = "ws")
          => last.outcome = "resolved" /\ last.value = currentSession

\* C18 witness: a pushed state snapshot has been stored and both state
\* subscribers were invoked, cbThrows, which throws, before cb1.
C18_Witness ==
    /\ last.op = "game_state_update"
    /\ last.notified = << << "state", "cbThrows" >>, << "state", "cb1" >> >>
    /\ currentState = last.received

\* C21: the local Session follows absent -> waiting -> playing: it is present
\* when createSession or joinSession has resolved, and its status is 'playing'
\* when startSession has resolved.
C21_StartedSessionIsPlaying ==
    /\ (last.op \in {"createSession", "joinSession"} /\ last.outcome = "resolved")
          => Present(currentSession)
    /\ (last.op = "startSession" /\ last.outcome = "resolved")
          => (Present(currentSession) /\ Get(currentSession).status = "playing")

\* C22: the stateUpdate updatePlayerState(playerId, partial) hands to
\* updateGameState has a playerStates mapping with one entry, that of
\* playerId, which is the stored PlayerState of playerId, or the default,
\* with the fields of partial over it.
C22_UpdateHasOneEntry ==
    (last.op = "updatePlayerState" /\ last.outcome = "pending")
        => LET stateUpdate == Get(last.requests[1].body)
               playerId == last.args[1]
           IN  /\ DOMAIN stateUpdate.playerStates = {playerId}
               /\ stateUpdate.playerStates[playerId] =
                     Spread(PlayerStateOf(currentState, playerId), last.args[2])

\* The events tracked in a step, in the order of tracking.
NewlyTracked == [i \in 1..(tracked' - tracked) |-> tracked + i]

\* C23: a flushEvents call with an empty queue, or with a flush in progress
\* and sync false, changes nothing; any other takes the whole queue as the
\* batch of one request and leaves the live queue empty in the same run.  A
\* batch that starts is the queue of that moment, a batch the backend accepts
\* is transmitted as it started, and tracking an event changes no batch in
\* flight: the event is in the live queue.
C23_FlushTakesWholeQueue ==
    [][/\ \A sync \in BOOLEAN :
            flushEvents(sync)
              => IF Len(eventQueue) = 0 \/ (isProcessingQueue /\ ~sync)
                 THEN UNCHANGED << eventQueue, isProcessingQueue, inflight, transmitted >>
                 ELSE /\ eventQueue' = << >>
                      /\ inflight' = inflight (+) SetToBag({[events |-> eventQueue, sync |-> sync]})
                      /\ isProcessingQueue'
                      /\ transmitted' = transmitted
       /\ \A f \in BagToSet(inflight') :
            CopiesIn(f, inflight') > CopiesIn(f, inflight)
              => /\ f.events /= << >>
                 /\ f.events \o eventQueue' = eventQueue \o NewlyTracked
                 /\ ~isProcessingQueue \/ f.sync
       /\ transmitted' /= transmitted
            => \E f \in BagToSet(inflight) :
                  /\ transmitted' = Append(transmitted, f.events)
                  /\ inflight' = inflight (-) SetToBag({f})
                  /\ eventQueue' = eventQueue
       /\ tracked' > tracked
            => /\ \A f \in BagToSet(inflight) : CopiesIn(f, inflight') >= CopiesIn(f, inflight)
               /\ \A i \in 1..Len(NewlyTracked) :
                     \/ InSeq(NewlyTracked[i], eventQueue')
                     \/ \E f \in BagToSet(inflight') :
                           /\ CopiesIn(f, inflight') > CopiesIn(f, inflight)
                           /\ InSeq(NewlyTracked[i], f.events)]_vars

\* C23 witness: the batch of event 1 is in flight and event 2, tracked
\* during the transmission, is the live queue.
C23_Witness ==
    /\ inflight = SetToBag({[events |-> << 1 >>, sync |-> FALSE]})
    /\ eventQueue = << 2 >>
    /\ isProcessingQueue

\* C24: a trackEvent call that brings the queue to MAX_QUEUE_SIZE events or
\* more starts a flush in the same run, also when the transmission of an
\* earlier flush is in flight.
C24_FullQueueStartsFlush ==
    [][(tracked' > tracked /\ Len(eventQueue) + Len(NewlyTracked) >= MAX_QUEUE_SIZE)
          => \E f \in BagToSet(inflight') :
                CopiesIn(f, inflight') > CopiesIn(f, inflight)]_vars

\* Every tracked event is in a batch the backend accepted.
AllTransmitted == Elements(Flatten(transmitted)) = 1..tracked

\* C25: with the flush timer firing and a backend that fails some batches and
\* then accepts, every event tracked by an initialized module is transmitted
\* in the end (the game tracks finitely many events, so from some moment on
\* all of them are).
C25_EveryEventIsTransmitted == <>[]AllTransmitted

\* C26: cleanup stops the flush timer, and cleanup and the beforeunload
\* listener start a flush of all the events queued at that moment, a flush in
\* progress or not; a stopped timer starts no flush and stays stopped.
C26_TeardownFlushesEverything ==
    [][/\ (cleanup \/ beforeunload)
            => IF eventQueue = << >>
               THEN UNCHANGED << eventQueue, inflight >>
               ELSE /\ eventQueue' = << >>
                    /\ inflight' = inflight (+) SetToBag({[events |-> eventQueue, sync |-> TRUE]})
       /\ cleanup => ~flushInterval'
       /\ ~flushInterval
            => /\ ~flushInterval' \/ anGameInfo' /= anGameInfo
               /\ ~flushTimer]_vars

\* C26 witness: cleanup has run while the batch of event 1 was in flight:
\* the timer is stopped, event 2 is in a batch of its own and nothing is queued.
C26_Witness ==
    /\ ~flushInterval
    /\ inflight = SetToBag({[events |-> << 1 >>, sync |-> FALSE],
                            [events |-> << 2 >>, sync |-> TRUE]})
    /\ eventQueue = << >>

\* C27: isInitialized() is true exactly when some initialize call has
\* resolved, and then getGameInfo() is the game info of such a call.
C27_InitializedHasItsGameInfo ==
    /\ sdkInitialized <=> sdkCompleted /= {}
    /\ sdkInitialized => \E info \in sdkCompleted : sdkGameInfo = Some(info)

\* C28: initialize with an incomplete game info rejects with a
\* MutableSDKError of code INVALID_CONFIGURATION and initializes no module.
C28_IncompleteIsInvalidConfiguration ==
    (sdkLast.op = "initialize" /\ IsSome(sdkLast.args) /\ Incomplete(Get(sdkLast.args)))
        => /\ sdkLast.outcome = "rejected"
           /\ sdkLast.error /= << >>
           /\ Head(sdkLast.error) = INVALID_CONFIGURATION
           /\ sdkLast.modules = << >>

LeaveDisconnects ==
    \E c \in BagToSet(pending) : leaveSessionResponse(c, Envelope(TRUE, Some(None), << >>))

\* The step suspends a call at wsClient.connect().
ConnectIsCalled ==
    \E c \in WsWaiters(pending') : CopiesIn(c, pending') > CopiesIn(c, pending)

C31_StoreAndNotifyIsOneStep ==
    [][ /\ (currentSession' /= currentSession /\ Present(currentSession'))
              => last'.notified = notifySessionUpdateCallbacks(currentSession')
        /\ (currentState' /= currentState /\ Present(currentState'))
              => last'.notified = notifyStateUpdateCallbacks(currentState')
      ]_vars

\* C32: a createSession or joinSession that rejects leaves no session
\* behind: the game had none when it made the call.
C32_RejectedCreateLeavesNoSession ==
    (last.op \in {"createSession", "joinSession"} /\ last.outcome = "rejected")
        => ~Present(currentSession)

\* C33: createSession and joinSession resolve with a present Session, the
\* one of the session their own request was answered with.
C33_ResolvesWithItsOwnSession ==
    (last.op \in {"createSession", "joinSession"} /\ last.outcome = "resolved")
        => /\ Present(last.value)
           /\ Some(Get(last.value).sessionId) = Get(last.resumed).sid

\* C34: when the updatePlayerState call for a player resolves, the stored
\* PlayerState of every other player is what it was.
C34_UpdateKeepsOtherPlayers ==
    [][(posted /= << >> /\ posted' = Tail(posted))
          => \A other \in PlayerIds \ {Head(posted).playerId} :
                PlayerStateOf(currentState', other) = PlayerStateOf(currentState, other)]_vars

\* C35: at most one batch sent by a flush that is not synchronous is in
\* flight, and isProcessingQueue is true while any batch is in flight.
C35_OneFlushInFlight ==
    /\ \A f \in BagToSet(inflight) : ~f.sync => CopiesIn(f, inflight) = 1
    /\ Cardinality({ f \in BagToSet(inflight) : ~f.sync }) <= 1
    /\ inflight /= EmptyBag => isProcessingQueue

\* C36: the function a registration returned removes that one registration:
\* a callback registered twice stays registered once.
C36_UnregisterRemovesOneRegistration ==
    [][/\ (last'.op = "unregisterStateUpdate" /\ InSeq(last'.args[1], stateUpdateCallbacks))
            => Len(stateUpdateCallbacks') = Len(stateUpdateCallbacks) - 1
       /\ (last'.op = "unregisterSessionUpdate" /\ InSeq(last'.args[1], sessionUpdateCallbacks))
            => Len(sessionUpdateCallbacks') = Len(sessionUpdateCallbacks) - 1]_vars

\* C37: a notification pass invokes no callback more often than it was
\* registered when the pass began, and no callback after the subscriber
\* that unregistered it.
C37_PassInvokesRegisteredAtStart ==
    [][last'.op = "game_state_update"
          => /\ \A cb \in {"cb1", "cbRegisters", "cbUnregisters"} :
                   Len(last'.notified) - Len(Filter(last'.notified, << "state", cb >>))
                      <= Len(stateUpdateCallbacks) - Len(Filter(stateUpdateCallbacks, cb))
             /\ \A k, l \in 1..Len(last'.notified) :
                   ~(k < l /\ last'.notified[k] = << "state", "cbUnregisters" >>
                           /\ last'.notified[l] = << "state", "cb1" >>)]_vars

\* C38: no player identifier is twice in the players list of the local Session.
C38_PlayersAreDistinct ==
    Present(currentSession)
        => \A i, j \in 1..Len(Get(currentSession).players) :
              Get(currentSession).players[i] = Get(currentSession).players[j] => i = j

\* C39: when logout has completed there is no auth token, no player, no
\* stored session and no pending refresh timer.
C39_LogoutClearsEverything ==
    (authLast.op = "logout" /\ authLast.outcome = "resolved")
        => /\ ~Present(authToken)
           /\ ~Present(authPlayer)
           /\ ~Present(storedSession)
           /\ ~refreshTokenTimeout

\* C40: once a logout has completed, the response to a refresh request
\* restores no auth token, writes no session back to storage and schedules
\* no new refresh timer.
C40_LogoutIsFinalForRefresh ==
    [][(loggedOut /\ authLast'.op = "refreshAuthToken" /\ authLast'.outcome /= "pending")
          => /\ ~Present(authToken) => ~Present(authToken')
             /\ ~Present(storedSession) => ~Present(storedSession')
             /\ ~refreshTokenTimeout => ~refreshTokenTimeout']_vars

====
